---- MODULE Spec2Model ----
(***************************************************************************)
(* Nodo-Image: the batch transformation pipeline.                          *)
(*                                                                         *)
(*   Spec      GestorNodos of nodo2.py under concurrent callers: the lock, *)
(*             admission, the worker pool, aggregation and release.        *)
(*   SpecLote  one nodo2 batch with every kind of image payload.           *)
(*   SpecNodo  GestorNodos of nodo.py: the sequential per-image loop and   *)
(*             the merge loop.                                             *)
(*   SpecProc  ImageProcessor.process_images_batch of image_processor.py:  *)
(*             the chunk loop and its two executors.                       *)
(*   SpecObjeto     a NodoOptimizado of objects.py or objects2.py under    *)
(*                  direct calls of its transformation methods.            *)
(*   SpecTrans      the two transformation pipelines: legacy tokens in a   *)
(*                  nodo2 batch, process_single_image_optimized on an item.*)
(*   SpecNodoConc   concurrent batches of nodo.py with their temporary     *)
(*                  files and the clock that names them.                   *)
(*   SpecEstado     Spec with callers of obtener_estado.                   *)
(*   SpecJusto      the same handlers under fair scheduling and a fair     *)
(*                  lock, for termination.                                 *)
(*   SpecFallo      nodo2 batches whose legacy tokens fail.                *)
(*   SpecValores    _parse_value and parse_xml of xml_handler.py.          *)
(*   SpecNumeros    the numbers of the blur and brightness tokens and the  *)
(*                  boxes of the two crops.                                *)
(*   SpecIda        a nodo2 batch and the batch made of the names its      *)
(*                  response records.                                      *)
(*   SpecCache      an ImageCache of image_processor.py under calls of get *)
(*                  and put.                                               *)
(*   SpecProcConc   two threads calling process_images_batch on the one    *)
(*                  ImageProcessor, with /process requests.                *)
(*   SpecXml        the two parsers of XMLHandler.parse_xml_optimized on   *)
(*                  documents below and above 10 MB.                       *)
(*                                                                         *)
(* Python indices are kept 0-based in the values (indice = position - 1).  *)
(* None is the string "None" for text and -1 for numbers.                  *)
(***************************************************************************)
EXTENDS Integers, Sequences, FiniteSets, TLC

VARIABLES
    imagenes_procesando,    \* GestorNodos.imagenes_procesando
    estado,                 \* GestorNodos.estado
    lock,                   \* GestorNodos.lock: 0 when free, else the caller holding it
    pc,                     \* per caller: position in the handler
    tipo,                   \* per caller: which entry point is running
    xml_content,            \* per caller: the document it was called with
    imagenes,               \* per caller: root.findall('imagen') of its document
    futuros,                \* per caller: state of each submitted future
    resultados_por_indice,  \* per caller: the dict, as (key, value) pairs in insertion order
    respuesta,              \* per caller: what the call returns
    iter,                   \* per caller (nodo.py): the index the running loop is at
    nodos_procesados,       \* per caller (nodo.py): the list of loaded NodoOptimizado
    root_respuesta,         \* per caller (nodo.py): the children appended so far
    status,                 \* ImageProcessor.status
    pcp,                    \* per thread: position in process_images_batch
    images,                 \* per thread: the argument of process_images_batch
    results,                \* per thread: the results list
    chunk_size,             \* per thread: the chunk size chosen
    desde,                  \* per thread: the loop variable i of the chunk loop
    excepcion,              \* per thread: str() of the exception the call raised
    xmls_temporales,        \* per caller (nodo.py): the names of its temporary files
    archivos,               \* the working directory: file name -> content
    reloj,                  \* int(time.time())
    objeto,                 \* a NodoOptimizado or an ImageCache under direct method calls
    llamada,                \* the last method called on objeto
    lanzada,                \* whether that call raised
    args,                   \* the arguments of the function called directly
    retorno                 \* what that function returned

\* the variables of the two GestorNodos and those of the ImageProcessor
vars_gestor == <<imagenes_procesando, estado, lock, pc, tipo, xml_content, imagenes, futuros,
                 resultados_por_indice, respuesta, iter, nodos_procesados, root_respuesta,
                 xmls_temporales>>
procesador == <<status, pcp, images, results, chunk_size, desde, excepcion>>
\* the file system, and the objects called directly
disco == <<archivos, reloj>>
biblioteca == <<objeto, llamada, lanzada, args, retorno>>
vars == <<vars_gestor, procesador, disco, biblioteca>>

(***************************************************************************)
(* Bounds of the model.                                                    *)
(***************************************************************************)
\* GestorNodos.__init__ sets capacidad_maxima = 100000 (src/nodo2.py:68,
\* src/nodo.py:73); the model scales it down so that batches reach it.
capacidad_maxima == 3
\* largest batch a concurrent caller submits
MaxLote == 3
\* largest batch of the single-caller specifications
MaxImagenes == 3

\* the longest list given to ImageProcessor.process_images_batch
MaxBatch == 5

\* Config.CHUNK_SIZE (100 at config.py:17), the chunk length from which the
\* process pool is used (50 at image_processor.py:346), Config.MAX_WORKERS
\* (min(NUM_CORES * 8, 128) at config.py:14) and MAX_MEMORY_USAGE -
\* MEMORY_BUFFER_SIZE of the host in units of one payload byte, scaled so that
\* lists of MaxBatch images reach both executors and more than one chunk
CHUNK_SIZE == 3
UmbralProcesos == 2
MAX_WORKERS == 1
MemoriaDisponible == 17

\* NodoOptimizado.MAX_TRANSFORMACIONES of objects2.py (20 at objects2.py:87),
\* scaled, and the longest transformation list of an image, one more than it
MAX_TRANSFORMACIONES_2 == 3
MaxTokens == 4
\* the seconds the clock of the model runs through after its start
MaxReloj == 1

\* the concurrent callers of one GestorNodos (RPC threads)
Llamadas == {1, 2}

\* the threads that call the ImageProcessor
Hilos == {1, 2}

(***************************************************************************)
(* Helpers on sequences.                                                   *)
(***************************************************************************)
Rango(s) == {s[k] : k \in DOMAIN s}

SeqsHasta(S, n) == UNION {[1..k -> S] : k \in 0..n}

\* sorted(keys): the increasing sequence of the elements of a finite set of integers
RECURSIVE sorted(_)
sorted(S) ==
    IF S = {} THEN <<>>
    ELSE LET m == CHOOSE x \in S : \A y \in S : x <= y
         IN <<m>> \o sorted(S \ {m})

(***************************************************************************)
(* The input document.  An imagen element is its text and the attributes   *)
(* the handlers read; an absent attribute is "None".                       *)
(*   texto "b64gzip_X"  base64(gzip(X))     "b64_X"  base64(X)             *)
(*         "no_b64"     text base64 cannot decode (incorrect padding)      *)
(*         " "          whitespace only      ""      no text               *)
(*   bytes "A", "B", "C" are images; "basura" is not an image; "enorme" opens   *)
(*   but cannot be loaded (MemoryError, whose str() is empty).             *)
(***************************************************************************)
Img(texto, formato, calidad) ==
    [texto |-> texto, formato |-> formato, calidad |-> calidad,
     transformaciones |-> <<>>]

ImgA        == Img("b64gzip_A", "None", "None")
ImgB        == Img("b64_B", "png", "90")
ImgVacia    == Img("", "None", "None")
ImgCorrupta == Img("b64gzip_basura", "None", "None")
ImgEnorme   == Img("b64gzip_enorme", "None", "None")
ImgXYZ      == Img("b64gzip_A", "XYZ", "None")
ImgCalidad  == Img("b64_B", "png", "alta")
ImgC        == Img("b64gzip_C", "None", "None")

\* payloads of the single-batch specifications
ImagenesLote == {ImgA, ImgB, ImgVacia, ImgCorrupta, ImgEnorme, ImgXYZ, ImgCalidad}

Documentos(Imgs, n) ==
    {[bien_formado |-> FALSE, imagenes |-> <<>>]}
        \cup {[bien_formado |-> TRUE, imagenes |-> s] : s \in SeqsHasta(Imgs, n)}

\* documents of the concurrent specification: not well formed, without images,
\* and for each size a batch that succeeds and one whose first image fails
DocumentosConc(n) ==
    {[bien_formado |-> FALSE, imagenes |-> <<>>]}
        \cup {[bien_formado |-> TRUE,
               imagenes |-> [k \in 1..m |-> IF k = 1 /\ falla THEN ImgCorrupta ELSE ImgA]] :
                   m \in 0..n, falla \in BOOLEAN}

(***************************************************************************)
(* Library calls, by what they do on the payloads above.                   *)
(***************************************************************************)
\* str.strip()
strip(t) == IF t = " " THEN "" ELSE t

\* str.upper()
upper(t) ==
    CASE t = "png" -> "PNG"
      [] t = "jpg" -> "JPG"
      [] t = "jpeg" -> "JPEG"
      [] OTHER -> t

\* Element.get(name, default)
get(valor, default) == IF valor = "None" THEN default ELSE valor

\* int(str): ok is FALSE where int() raises ValueError
int(t) ==
    CASE t = "85" -> [ok |-> TRUE, v |-> 85]
      [] t = "90" -> [ok |-> TRUE, v |-> 90]
      [] OTHER -> [ok |-> FALSE, v |-> -1]

\* base64.b64decode: ok is FALSE where it raises binascii.Error
b64decode(t) ==
    CASE t = "b64gzip_A" -> [ok |-> TRUE, bytes |-> "gzip_A"]
      [] t = "b64gzip_C" -> [ok |-> TRUE, bytes |-> "gzip_C"]
      [] t = "b64gzip_basura" -> [ok |-> TRUE, bytes |-> "gzip_basura"]
      [] t = "b64gzip_enorme" -> [ok |-> TRUE, bytes |-> "gzip_enorme"]
      [] t = "b64_B" -> [ok |-> TRUE, bytes |-> "B"]
      [] t = " " -> [ok |-> TRUE, bytes |-> ""]
      [] t = "" -> [ok |-> TRUE, bytes |-> ""]
      [] OTHER -> [ok |-> FALSE, bytes |-> ""]

\* gzip.decompress: ok is FALSE where it raises (not a gzip stream)
decompress(b) ==
    CASE b = "gzip_A" -> [ok |-> TRUE, bytes |-> "A"]
      [] b = "gzip_C" -> [ok |-> TRUE, bytes |-> "C"]
      [] b = "gzip_basura" -> [ok |-> TRUE, bytes |-> "basura"]
      [] b = "gzip_enorme" -> [ok |-> TRUE, bytes |-> "enorme"]
      [] OTHER -> [ok |-> FALSE, bytes |-> ""]

\* Image.open(io.BytesIO(b)) followed by img.copy(): where one of them raises,
\* ok is FALSE and error is the str() of the exception
Image_open(b) ==
    CASE b \in {"A", "B", "C"} -> [ok |-> TRUE, error |-> "None", img |-> b]
      [] b = "enorme" -> [ok |-> FALSE, error |-> "", img |-> "None"]
      [] OTHER -> [ok |-> FALSE, error |-> "cannot identify image file", img |-> "None"]

\* the formats PIL's Image.save can write
FormatosPIL == {"JPEG", "PNG", "WEBP", "TIFF", "BMP", "GIF"}

(***************************************************************************)
(* objects2.NodoOptimizado, as far as the batch path of nodo2 uses it.     *)
(***************************************************************************)
None_nodo ==
    [clase |-> "None", imagen_procesada |-> "None", operaciones |-> <<>>,
     transformaciones_aplicadas |-> <<>>, MAX_TRANSFORMACIONES |-> 0]

\* NodoOptimizado() of objects2.py given img as its image: imagen_procesada is
\* the decoded image and operaciones the PIL calls made on it so far, in order
NodoOptimizado(img) ==
    [clase |-> "objects2", imagen_procesada |-> img, operaciones |-> <<>>,
     transformaciones_aplicadas |-> <<>>,
     MAX_TRANSFORMACIONES |-> MAX_TRANSFORMACIONES_2]

\* a transformation token of the client, an entry of transformaciones_aplicadas
\* or a PIL call: its keyword and the text of its arguments
Nombre(clave, arg) == [clave |-> clave, arg |-> arg]

\* a guard that lets a call through although the log is full
puede_aplicar_siempre(nodo) == TRUE

\* NodoOptimizado._puede_aplicar_transformacion
puede_aplicar_transformacion(nodo) ==
    Len(nodo.transformaciones_aplicadas) < nodo.MAX_TRANSFORMACIONES

\* NodoOptimizado._registrar_transformacion
registrar_transformacion(nodo, nombre) ==
    [nodo EXCEPT !.transformaciones_aplicadas = Append(@, nombre)]

\* the outcome of a method call: the object after it and whether it raised
retorna(nodo) == [nodo |-> nodo, lanzada |-> FALSE]
lanza(nodo) == [nodo |-> nodo, lanzada |-> TRUE]

\* the common shape of the transformation methods: under the guard, the PIL
\* call on imagen_procesada and then the log entry
transformar(nodo, op, nombre) ==
    IF puede_aplicar_transformacion(nodo)
    THEN retorna(registrar_transformacion(
                     [nodo EXCEPT !.operaciones = Append(@, op)], nombre))
    ELSE retorna(nodo)

\* the methods of objects2.NodoOptimizado
escala_grises(nodo) ==
    transformar(nodo, Nombre("convert", "L_RGB"), Nombre("escala_grises", ""))

\* Image.resize raises ValueError for an empty size, before the assignment
redimensionar(nodo, size) ==
    IF puede_aplicar_transformacion(nodo) /\ size = "0x0"
    THEN lanza(nodo)
    ELSE transformar(nodo, Nombre("resize", size), Nombre("redimensionar", size))

\* the boxes that are empty once clamped to the image (x2 <= x1 or y2 <= y1)
CajasVacias == {"5_5_5_5", "10_10_5_5"}

recortar(nodo, box) ==
    IF box \in CajasVacias
    THEN retorna(nodo)
    ELSE transformar(nodo, Nombre("crop", box), Nombre("recortar", box))

rotar(nodo, angle) ==
    transformar(nodo, Nombre("rotate", angle), Nombre("rotar", angle))

reflejar(nodo, direccion) ==
    transformar(nodo,
                Nombre("transpose", IF direccion = "vertical" THEN "FLIP_TOP_BOTTOM"
                                    ELSE "FLIP_LEFT_RIGHT"),
                Nombre("reflejar", direccion))

desenfocar(nodo, nivel) ==
    transformar(nodo, Nombre("GaussianBlur", nivel), Nombre("desenfocar", nivel))

perfilar(nodo, nivel) ==
    transformar(nodo, Nombre("Sharpness", nivel), Nombre("perfilar", nivel))

ajustar_brillo_contraste(nodo, brillo_contraste) ==
    transformar(nodo, Nombre("Brightness_Contrast", brillo_contraste),
                Nombre("ajustar_brillo", brillo_contraste))

ajustar_nitidez(nodo, nivel) ==
    transformar(nodo, Nombre("Sharpness", nivel), Nombre("ajustar_nitidez", nivel))

ajustar_saturacion(nodo, nivel) ==
    transformar(nodo, Nombre("Color", nivel), Nombre("ajustar_saturacion", nivel))

insertar_texto(nodo, texto) ==
    transformar(nodo, Nombre("draw_text", texto), Nombre("insertar_texto", texto))

\* no base64 text
None_datos == [img |-> "None", operaciones |-> <<>>, formato |-> "None", calidad |-> -1]

\* the Python truth value of a str or None
truthy(t) == t \notin {"None", ""}

\* a decode without the except branch: a payload that is not a gzip stream fails
decodificar_sin_respaldo(datos_b64) ==
    LET datos_comprimidos == b64decode(datos_b64)
        datos_imagen == decompress(datos_comprimidos.bytes)
    IN  IF datos_comprimidos.ok /\ datos_imagen.ok
        THEN [ok |-> TRUE, error |-> "None", bytes |-> datos_imagen.bytes]
        ELSE [ok |-> FALSE, error |-> "Not a gzipped file", bytes |-> ""]

\* the payload decode of nodo2: base64 then gzip, falling back to plain base64
\* when either raises (the fallback raises again when base64 itself failed)
decodificar_datos(datos_b64) ==
    LET datos_comprimidos == b64decode(datos_b64)
        datos_imagen == decompress(datos_comprimidos.bytes)
    IN  IF datos_comprimidos.ok /\ datos_imagen.ok
        THEN [ok |-> TRUE, error |-> "None", bytes |-> datos_imagen.bytes]
        ELSE IF datos_comprimidos.ok
        THEN [ok |-> TRUE, error |-> "None", bytes |-> datos_comprimidos.bytes]
        ELSE [ok |-> FALSE, error |-> "Incorrect padding", bytes |-> ""]

\* NodoOptimizado.convertir_y_comprimir_optimizado: ok is FALSE where it raises
\* (nodo is None, or PIL cannot write the format); datos is the base64 text,
\* named by the image, the format written and the quality a lossy format uses
convertir_y_comprimir_optimizado(nodo, formato, calidad) ==
    LET formato_upper == IF upper(formato) = "JPG" THEN "JPEG" ELSE upper(formato)
    IN  IF nodo = None_nodo \/ formato_upper \notin FormatosPIL
        THEN [ok |-> FALSE, datos |-> None_datos]
        ELSE [ok |-> TRUE,
              datos |-> [img |-> nodo.imagen_procesada,
                         operaciones |-> nodo.operaciones, formato |-> formato_upper,
                         calidad |-> IF formato_upper \in {"JPEG", "WEBP"}
                                     THEN calidad ELSE -1]]

(***************************************************************************)
(* nodo2.GestorNodos._aplicar_transformaciones_optimizado.  The attribute   *)
(* transformaciones is kept as the list transformaciones_str.split(', ');  *)
(* `'rotar' in trans` is the test that the token's keyword is rotar (no    *)
(* token of the model holds two keywords).                                 *)
(***************************************************************************)
\* the four lists the tokens are sorted into before they are applied
ajustes_color(trans_list) ==
    SelectSeq(trans_list, LAMBDA t : t.clave \in {"escala_grises", "ajustar_brillo",
                                                 "ajustar_saturacion", "ajustar_nitidez"})
geometricas(trans_list) ==
    SelectSeq(trans_list, LAMBDA t : t.clave \in {"rotar", "redimensionar", "reflejar",
                                                 "recortar"})
efectos(trans_list) ==
    SelectSeq(trans_list, LAMBDA t : t.clave \in {"desenfocar", "perfilar"})
otros(trans_list) ==
    SelectSeq(trans_list, LAMBDA t : t.clave \notin
        {"escala_grises", "ajustar_brillo", "ajustar_saturacion", "ajustar_nitidez",
         "rotar", "redimensionar", "reflejar", "recortar", "desenfocar", "perfilar"})

\* the order of the second loop: ajustes_color + geometricas + efectos + otros
orden_de_aplicacion(trans_list) ==
    ajustes_color(trans_list) \o geometricas(trans_list) \o efectos(trans_list)
        \o otros(trans_list)

\* max(0.1, min(10.0, valor / 10.0)) and max(0.0, min(3.0, valor / 33.33)) on
\* the values the tokens of the model carry; the default where int() raises
radio_de(arg) == IF arg = "20" THEN "2.0" ELSE IF arg = "50" THEN "5.0" ELSE "2.0"
factor_de(arg) == IF arg = "50" THEN "1.5" ELSE "2.0"

\* a token no branch of the if/elif chain matches: nothing is called
token_desconocido(nodo, trans) == nodo

\* the if/elif chain for one token, inside the try of the second loop: the
\* object after it and whether an exception leaves the chain.  The inner
\* try/except blocks replace an unparsable parameter by the default.
\* insertar_texto is called with the keyword tamaño_fuente, which
\* objects2.insertar_texto (tamano_fuente) does not take: TypeError
cuerpo_del_intento(nodo, trans) ==
    CASE trans.clave = "escala_grises" -> escala_grises(nodo)
      [] trans.clave = "rotar" ->
            rotar(nodo, IF int(trans.arg).ok THEN trans.arg ELSE "45")
      [] trans.clave = "redimensionar" ->
            IF trans.arg = "" \/ redimensionar(nodo, trans.arg).lanzada
            THEN redimensionar(nodo, "200x200")
            ELSE redimensionar(nodo, trans.arg)
      [] trans.clave = "recortar" ->
            recortar(nodo, IF trans.arg = "" THEN "0_0_100_100" ELSE trans.arg)
      [] trans.clave = "reflejar" ->
            reflejar(nodo, IF trans.arg = "" THEN "horizontal" ELSE trans.arg)
      [] trans.clave = "desenfocar" -> desenfocar(nodo, radio_de(trans.arg))
      [] trans.clave = "perfilar" -> perfilar(nodo, factor_de(trans.arg))
      [] trans.clave = "ajustar_brillo" ->
            ajustar_brillo_contraste(nodo, IF trans.arg = "" THEN "1.0_1.0"
                                           ELSE trans.arg)
      [] trans.clave = "ajustar_nitidez" ->
            ajustar_nitidez(nodo, IF trans.arg = "" THEN "50" ELSE trans.arg)
      [] trans.clave = "ajustar_saturacion" ->
            ajustar_saturacion(nodo, IF trans.arg = "" THEN "50" ELSE trans.arg)
      [] trans.clave = "insertar_texto" -> lanza(nodo)
      [] OTHER -> retorna(token_desconocido(nodo, trans))

\* the body of the second loop for one token: try: the chain; except
\* Exception: pass.  The object is as the chain left it
aplicar_transformacion(nodo, trans) == cuerpo_del_intento(nodo, trans).nodo

RECURSIVE aplicar_en_orden(_, _)
aplicar_en_orden(nodo, lista) ==
    IF lista = <<>> THEN nodo
    ELSE aplicar_en_orden(aplicar_transformacion(nodo, Head(lista)), Tail(lista))

\* the second loop without its try/except: the exception of a token leaves
\* the method and the task has no object to return
RECURSIVE aplicar_en_orden_sin_try(_, _)
aplicar_en_orden_sin_try(nodo, lista) ==
    IF lista = <<>> THEN nodo
    ELSE LET r == cuerpo_del_intento(nodo, Head(lista))
         IN  IF r.lanzada THEN None_nodo
             ELSE aplicar_en_orden_sin_try(r.nodo, Tail(lista))

aplicar_transformaciones_sin_try(nodo, trans_list) ==
    aplicar_en_orden_sin_try(nodo, orden_de_aplicacion(trans_list))

\* GestorNodos._aplicar_transformaciones_optimizado: the object after the call
aplicar_transformaciones_optimizado(nodo, trans_list) ==
    aplicar_en_orden(nodo, orden_de_aplicacion(trans_list))

(***************************************************************************)
(* nodo2.GestorNodos: the per-image task and the response.                 *)
(***************************************************************************)
Tupla(nodo, error, formato, calidad) ==
    [nodo |-> nodo, error |-> error, formato |-> formato, calidad |-> calidad]

\* GestorNodos._procesar_imagen_individual_optimizado: (nodo, error, formato, calidad)
procesar_imagen_individual_optimizado(imagen_elem, indice) ==
    LET datos_b64 == strip(imagen_elem.texto)
        formato_original == upper(get(imagen_elem.formato, "JPEG"))
        calidad == int(get(imagen_elem.calidad, "85"))
        datos_imagen == decodificar_datos(datos_b64)
        img == Image_open(datos_imagen.bytes)
    IN  IF ~calidad.ok
        THEN Tupla(None_nodo, "invalid literal for int()", "None", -1)
        ELSE IF datos_b64 = ""
        THEN Tupla(None_nodo, "Sin datos en imagen", "None", -1)
        ELSE IF ~datos_imagen.ok
        THEN Tupla(None_nodo, datos_imagen.error, "None", -1)
        ELSE IF ~img.ok
        THEN Tupla(None_nodo, img.error, "None", -1)
        ELSE Tupla(IF imagen_elem.transformaciones # <<>>
                   THEN aplicar_transformaciones_optimizado(
                            NodoOptimizado(img.img), imagen_elem.transformaciones)
                   ELSE NodoOptimizado(img.img),
                   "None", formato_original, calidad.v)

\* a child of the response: <imagen error= indice_original=/> or
\* <imagen formato= calidad= indice_procesado=>datos</imagen>
ElementoError(error, indice) ==
    [error |-> error, indice_original |-> indice, indice_procesado |-> -1,
     formato |-> "None", calidad |-> -1, transformaciones |-> <<>>,
     total_transformaciones |-> -1, text |-> None_datos]

ElementoImagen(formato, calidad, transformaciones, indice, text) ==
    [error |-> "None", indice_original |-> -1, indice_procesado |-> indice,
     formato |-> formato, calidad |-> calidad, transformaciones |-> transformaciones,
     total_transformaciones |-> Len(transformaciones), text |-> text]

\* a returned document: <error>text</error>, or <imagenes_procesadas> /
\* <imagen_convertida> with its counters and children
NingunaRespuesta ==
    [raiz |-> "None", text |-> "None", total_procesadas |-> -1, total_errores |-> -1,
     hijos |-> <<>>]

\* GestorNodos._crear_xml_error
crear_xml_error(mensaje_error) ==
    [raiz |-> "error", text |-> mensaje_error, total_procesadas |-> -1,
     total_errores |-> -1, hijos |-> <<>>]

\* a merge that writes every image as JPEG of quality 85, whatever it asked for
fusionar_nodo_formato_fijo(nodo, hijos, indice, formato_salida, calidad) ==
    LET b64_data == convertir_y_comprimir_optimizado(nodo, "JPEG", 85)
    IN  IF b64_data.ok
        THEN [hijos |-> Append(hijos, ElementoImagen("JPEG", 85,
                                                     nodo.transformaciones_aplicadas,
                                                     indice, b64_data.datos)),
              ret |-> TRUE]
        ELSE [hijos |-> hijos, ret |-> FALSE]

\* GestorNodos._fusionar_nodo_a_xml_optimizado: the children after the call and
\* the value returned
fusionar_nodo_a_xml_optimizado(nodo, hijos, indice, formato_salida, calidad) ==
    LET b64_data == convertir_y_comprimir_optimizado(nodo, formato_salida, calidad)
    IN  IF b64_data.ok
        THEN [hijos |-> Append(hijos, ElementoImagen(formato_salida, calidad,
                                                     nodo.transformaciones_aplicadas,
                                                     indice, b64_data.datos)),
              ret |-> TRUE]
        ELSE [hijos |-> hijos, ret |-> FALSE]

\* what the as_completed loop stores for a finished future
resultado_de(t) ==
    IF truthy(t.error)
    THEN [clase |-> "error", error |-> t.error, nodo |-> None_nodo,
          formato |-> "None", calidad |-> -1]
    ELSE [clase |-> "success", error |-> "None", nodo |-> t.nodo,
          formato |-> t.formato, calidad |-> t.calidad]

\* the dict resultados_por_indice is kept as its items in insertion order
valor_de(items, i) == (CHOOSE e \in Rango(items) : e.i = i).r

\* the keys as the dict holds them, in insertion order, without sorted()
claves_por_llegada(items) == [k \in DOMAIN items |-> items[k].i]

\* the keys in the order the merge loop visits them: sorted(resultados_por_indice.keys())
claves_ordenadas(items) == sorted({e.i : e \in Rango(items)})

\* the merge loop body that forgets to count an image whose encode fails
paso_fusion_sin_contar(acc, i, resultado) ==
    IF resultado.clase = "error"
    THEN [hijos |-> Append(acc.hijos, ElementoError(resultado.error, i)),
          procesadas |-> acc.procesadas, errores |-> acc.errores + 1]
    ELSE LET f == fusionar_nodo_a_xml_optimizado(resultado.nodo, acc.hijos, i,
                                                 resultado.formato, resultado.calidad)
         IN  [hijos |-> f.hijos,
              procesadas |-> IF f.ret THEN acc.procesadas + 1 ELSE acc.procesadas,
              errores |-> acc.errores]

\* the body of the merge loop for key i, on acc = (children, procesadas, errores)
paso_fusion(acc, i, resultado) ==
    IF resultado.clase = "error"
    THEN [hijos |-> Append(acc.hijos, ElementoError(resultado.error, i)),
          procesadas |-> acc.procesadas, errores |-> acc.errores + 1]
    ELSE LET f == fusionar_nodo_a_xml_optimizado(resultado.nodo, acc.hijos, i,
                                                 resultado.formato, resultado.calidad)
         IN  IF f.ret
             THEN [hijos |-> f.hijos, procesadas |-> acc.procesadas + 1,
                   errores |-> acc.errores]
             ELSE [hijos |-> f.hijos, procesadas |-> acc.procesadas,
                   errores |-> acc.errores + 1]

\* a merge loop that gives up at the first failed image
RECURSIVE bucle_fusion_aborta(_, _, _)
bucle_fusion_aborta(acc, claves, items) ==
    IF claves = <<>> THEN acc
    ELSE LET r == valor_de(items, Head(claves))
             sig == paso_fusion(acc, Head(claves), r)
         IN  IF r.clase = "error" THEN sig
             ELSE bucle_fusion_aborta(sig, Tail(claves), items)

RECURSIVE bucle_fusion(_, _, _)
bucle_fusion(acc, claves, items) ==
    IF claves = <<>> THEN acc
    ELSE bucle_fusion(paso_fusion(acc, Head(claves), valor_de(items, Head(claves))),
                      Tail(claves), items)

\* the <imagenes_procesadas> document built from the collected results
respuesta_lote(items) ==
    LET acc == bucle_fusion([hijos |-> <<>>, procesadas |-> 0, errores |-> 0],
                            claves_ordenadas(items), items)
    IN  [raiz |-> "imagenes_procesadas", text |-> "None",
         total_procesadas |-> acc.procesadas, total_errores |-> acc.errores,
         hijos |-> acc.hijos]

(***************************************************************************)
(* nodo2.GestorNodos: the handlers, one action per step between two        *)
(* points where another thread can run.                                    *)
(***************************************************************************)
\* ThreadPoolExecutor(max_workers=4)
max_workers == 4

\* num_imagenes of a running call: len(imagenes) for a batch, 1 for a single conversion
num_imagenes(c) == IF tipo[c] = "unica" THEN 1 ELSE Len(imagenes[c])

\* a lock that excludes nobody
lock_sin_exclusion == TRUE

\* `with self.lock:` is entered only when no other thread holds the lock
lock_libre == lock = 0

\* the test of the single conversion used for a batch: the batch size is ignored
excede_capacidad_sin_lote(n) == imagenes_procesando >= capacidad_maxima

\* the test with >= for >: a batch that fills the capacity exactly is refused
excede_capacidad_estricta(n) == imagenes_procesando + n >= capacidad_maxima

\* the admission test of procesar_xml_imagenes, read under the lock
excede_capacidad(n) == imagenes_procesando + n > capacidad_maxima

\* the admission test of convertir_imagen_unica, read under the lock
sin_capacidad == imagenes_procesando >= capacidad_maxima

\* a release that gives back only the images that were processed
cantidad_liberada_procesadas(c) ==
    IF respuesta[c].raiz = "imagenes_procesadas" THEN respuesta[c].total_procesadas
    ELSE IF respuesta[c].raiz = "imagen_convertida" THEN 1
    ELSE 0

\* what the finally block subtracts
cantidad_liberada(c) == num_imagenes(c)

locales == <<tipo, xml_content, imagenes, futuros, resultados_por_indice>>
gestor == <<imagenes_procesando, estado, lock>>
locales_nodo == <<iter, nodos_procesados, root_respuesta, xmls_temporales>>

\* root_respuesta of nodo.py before its loops, with the locals procesadas and errores
RaizVacia == [hijos |-> <<>>, procesadas |-> 0, errores |-> 0]

\* no call running: no document
NingunDocumento == [bien_formado |-> FALSE, imagenes |-> <<>>]

\* a test that lets a document without imagen elements through
sin_imagenes_nunca(imagenes_) == FALSE

\* `if not imagenes:`
sin_imagenes(imagenes_) == imagenes_ = <<>>

\* procesar_xml_imagenes up to the lock: parse the document and count its images
LlamarLote(c, doc) ==
    /\ pc[c] = "inactivo"
    /\ tipo' = [tipo EXCEPT ![c] = "lote"]
    /\ xml_content' = [xml_content EXCEPT ![c] = doc]
    /\ IF ~doc.bien_formado
       THEN /\ respuesta' = [respuesta EXCEPT ![c] = crear_xml_error("XML malformado")]
            /\ pc' = [pc EXCEPT ![c] = "fin"]
            /\ UNCHANGED imagenes
       ELSE IF sin_imagenes(doc.imagenes)
       THEN /\ respuesta' = [respuesta EXCEPT ![c] =
                                crear_xml_error("No se encontraron imagenes en el XML")]
            /\ pc' = [pc EXCEPT ![c] = "fin"]
            /\ UNCHANGED imagenes
       ELSE /\ imagenes' = [imagenes EXCEPT ![c] = doc.imagenes]
            /\ pc' = [pc EXCEPT ![c] = "adquirir"]
            /\ UNCHANGED respuesta
    /\ UNCHANGED <<gestor, futuros, resultados_por_indice>>
    /\ UNCHANGED <<locales_nodo, procesador, biblioteca, disco>>

\* convertir_imagen_unica up to the lock
LlamarUnica(c, doc) ==
    /\ pc[c] = "inactivo"
    /\ tipo' = [tipo EXCEPT ![c] = "unica"]
    /\ xml_content' = [xml_content EXCEPT ![c] = doc]
    /\ IF ~doc.bien_formado
       THEN /\ respuesta' = [respuesta EXCEPT ![c] = crear_xml_error("Error procesando XML")]
            /\ pc' = [pc EXCEPT ![c] = "fin"]
            /\ UNCHANGED imagenes
       ELSE IF Len(doc.imagenes) # 1
       THEN /\ respuesta' = [respuesta EXCEPT ![c] =
                                crear_xml_error("Solo se acepta una imagen")]
            /\ pc' = [pc EXCEPT ![c] = "fin"]
            /\ UNCHANGED imagenes
       ELSE IF doc.imagenes[1].texto = ""
       THEN /\ respuesta' = [respuesta EXCEPT ![c] =
                                crear_xml_error("No hay datos de imagen")]
            /\ pc' = [pc EXCEPT ![c] = "fin"]
            /\ UNCHANGED imagenes
       ELSE /\ imagenes' = [imagenes EXCEPT ![c] = doc.imagenes]
            /\ pc' = [pc EXCEPT ![c] = "adquirir"]
            /\ UNCHANGED respuesta
    /\ UNCHANGED <<gestor, futuros, resultados_por_indice>>
    /\ UNCHANGED <<locales_nodo, procesador, biblioteca, disco>>

\* entering `with self.lock:`, before admission and in the finally block
Adquirir(c) ==
    /\ pc[c] \in {"adquirir", "liberar"}
    /\ lock_libre
    /\ lock' = c
    /\ pc' = [pc EXCEPT ![c] = IF pc[c] = "adquirir" THEN "verificar" ELSE "decrementar"]
    /\ UNCHANGED <<imagenes_procesando, estado, locales, respuesta>>
    /\ UNCHANGED <<locales_nodo, procesador, biblioteca, disco>>

\* a capacity test whose rejection returns with the lock still held
Verificar_sin_soltar(c) ==
    /\ pc[c] = "verificar"
    /\ IF (tipo[c] \in {"lote", "lote_nodo"} /\ excede_capacidad(num_imagenes(c)))
          \/ (tipo[c] = "unica" /\ sin_capacidad)
       THEN /\ respuesta' = [respuesta EXCEPT ![c] =
                                crear_xml_error("Capacidad maxima excedida")]
            /\ pc' = [pc EXCEPT ![c] = "fin"]
       ELSE /\ pc' = [pc EXCEPT ![c] = "incrementar"]
            /\ UNCHANGED respuesta
    /\ UNCHANGED <<gestor, locales>>
    /\ UNCHANGED <<locales_nodo, procesador, biblioteca, disco>>

\* the capacity test under the lock; a rejection returns and leaves the lock
Verificar(c) ==
    /\ pc[c] = "verificar"
    /\ IF (tipo[c] \in {"lote", "lote_nodo"} /\ excede_capacidad(num_imagenes(c)))
          \/ (tipo[c] = "unica" /\ sin_capacidad)
       THEN /\ respuesta' = [respuesta EXCEPT ![c] =
                                crear_xml_error("Capacidad maxima excedida")]
            /\ pc' = [pc EXCEPT ![c] = "fin"]
            /\ lock' = 0
       ELSE /\ pc' = [pc EXCEPT ![c] = "incrementar"]
            /\ UNCHANGED <<respuesta, lock>>
    /\ UNCHANGED <<imagenes_procesando, estado, locales>>
    /\ UNCHANGED <<locales_nodo, procesador, biblioteca, disco>>

\* the admission itself, then leaving the lock
Incrementar(c) ==
    /\ pc[c] = "incrementar"
    /\ imagenes_procesando' = imagenes_procesando + num_imagenes(c)
    /\ estado' = "procesando"
    /\ lock' = 0
    /\ pc' = [pc EXCEPT ![c] = CASE tipo[c] = "lote" -> "despachar"
                                  [] tipo[c] = "lote_nodo" -> "bucle_imagenes"
                                  [] OTHER -> "convertir"]
    /\ UNCHANGED <<locales, respuesta>>
    /\ UNCHANGED <<locales_nodo, procesador, biblioteca, disco>>

\* executor.submit of one task per image
Despachar(c) ==
    /\ pc[c] = "despachar"
    /\ futuros' = [futuros EXCEPT ![c] = [k \in 1..Len(imagenes[c]) |-> "pendiente"]]
    /\ resultados_por_indice' = [resultados_por_indice EXCEPT ![c] = <<>>]
    /\ pc' = [pc EXCEPT ![c] = "esperando"]
    /\ UNCHANGED <<gestor, tipo, xml_content, imagenes, respuesta>>
    /\ UNCHANGED <<locales_nodo, procesador, biblioteca, disco>>

\* a future finishes and as_completed hands it to the caller; the pool runs the
\* tasks in submission order, max_workers at a time
CompletarFuturo(c, k) ==
    /\ pc[c] = "esperando"
    /\ k \in DOMAIN futuros[c]
    /\ futuros[c][k] = "pendiente"
    /\ Cardinality({j \in 1..(k - 1) : futuros[c][j] = "pendiente"}) < max_workers
    /\ futuros' = [futuros EXCEPT ![c][k] = "hecho"]
    /\ resultados_por_indice' = [resultados_por_indice EXCEPT ![c] =
           Append(@, [i |-> k - 1,
                      r |-> resultado_de(
                               procesar_imagen_individual_optimizado(imagenes[c][k], k - 1))])]
    /\ UNCHANGED <<gestor, pc, tipo, xml_content, imagenes, respuesta>>
    /\ UNCHANGED <<locales_nodo, procesador, biblioteca, disco>>

\* every future is done: the merge loop and the counters
Agregar(c) ==
    /\ pc[c] = "esperando"
    /\ respuesta[c] = NingunaRespuesta
    /\ \A k \in DOMAIN futuros[c] : futuros[c][k] = "hecho"
    /\ respuesta' = [respuesta EXCEPT ![c] = respuesta_lote(resultados_por_indice[c])]
    /\ pc' = [pc EXCEPT ![c] = "liberar"]
    /\ UNCHANGED <<gestor, locales>>
    /\ UNCHANGED <<locales_nodo, procesador, biblioteca, disco>>

\* `except Exception` of procesar_xml_imagenes: the pool cannot start its threads,
\* or memory runs out while the response is built; leaving the `with` block of
\* the executor waits for every submitted task before the handler runs
FalloInesperado(c) ==
    /\ pc[c] \in {"despachar", "esperando"}
    /\ pc[c] = "esperando" => \A k \in DOMAIN futuros[c] : futuros[c][k] = "hecho"
    /\ respuesta' = [respuesta EXCEPT ![c] = crear_xml_error("Error general")]
    /\ pc' = [pc EXCEPT ![c] = "liberar"]
    /\ UNCHANGED <<gestor, locales>>
    /\ UNCHANGED <<locales_nodo, procesador, biblioteca, disco>>

\* the body of convertir_imagen_unica between admission and the finally block
Convertir(c) ==
    /\ pc[c] = "convertir"
    /\ LET datos_imagen == decodificar_datos(imagenes[c][1].texto)
           img == Image_open(datos_imagen.bytes)
           b64_data == convertir_y_comprimir_optimizado(
                           NodoOptimizado(img.img), "JPEG", 85)
       IN  respuesta' = [respuesta EXCEPT ![c] =
               IF datos_imagen.ok /\ img.ok /\ b64_data.ok
               THEN [raiz |-> "imagen_convertida", text |-> "None",
                     total_procesadas |-> -1, total_errores |-> -1,
                     hijos |-> <<[ElementoImagen("JPEG", 85, <<>>, -1, b64_data.datos)
                                    EXCEPT !.total_transformaciones = -1]>>]
               ELSE crear_xml_error("Error convirtiendo")]
    /\ pc' = [pc EXCEPT ![c] = "liberar"]
    /\ UNCHANGED <<gestor, locales>>
    /\ UNCHANGED <<locales_nodo, procesador, biblioteca, disco>>

\* a finally block that sets estado back whatever the counter is
Decrementar_sin_condicion(c) ==
    /\ pc[c] = "decrementar"
    /\ imagenes_procesando' = imagenes_procesando - cantidad_liberada(c)
    /\ estado' = "disponible"
    /\ lock' = 0
    /\ pc' = [pc EXCEPT ![c] = "fin"]
    /\ UNCHANGED <<locales, respuesta>>
    /\ UNCHANGED <<locales_nodo, procesador, biblioteca, disco>>

\* the finally block under the lock
Decrementar(c) ==
    /\ pc[c] = "decrementar"
    /\ imagenes_procesando' = imagenes_procesando - cantidad_liberada(c)
    /\ estado' = IF imagenes_procesando' = 0 THEN "disponible" ELSE estado
    /\ lock' = 0
    /\ pc' = [pc EXCEPT ![c] = "fin"]
    /\ UNCHANGED <<locales, respuesta>>
    /\ UNCHANGED <<locales_nodo, procesador, biblioteca, disco>>

\* the handler has returned its document; the caller may call again
Retornar(c) ==
    /\ pc[c] = "fin"
    /\ pc' = [pc EXCEPT ![c] = "inactivo"]
    /\ tipo' = [tipo EXCEPT ![c] = "None"]
    /\ xml_content' = [xml_content EXCEPT ![c] = NingunDocumento]
    /\ imagenes' = [imagenes EXCEPT ![c] = <<>>]
    /\ futuros' = [futuros EXCEPT ![c] = <<>>]
    /\ resultados_por_indice' = [resultados_por_indice EXCEPT ![c] = <<>>]
    /\ respuesta' = [respuesta EXCEPT ![c] = NingunaRespuesta]
    /\ iter' = [iter EXCEPT ![c] = 0]
    /\ nodos_procesados' = [nodos_procesados EXCEPT ![c] = <<>>]
    /\ root_respuesta' = [root_respuesta EXCEPT ![c] = RaizVacia]
    /\ xmls_temporales' = [xmls_temporales EXCEPT ![c] = <<>>]
    /\ UNCHANGED <<gestor, procesador, biblioteca, disco>>

\* the dict obtener_estado builds, key by key; None is -1 and FALSE until read
dict_estado(e, n, disponibles, d) ==
    [estado |-> e, imagenes_procesando |-> n, capacidad_maxima |-> capacidad_maxima,
     capacidad_disponible |-> disponibles, disponible |-> d]

\* a caller enters obtener_estado
ObtenerEstado(c) ==
    /\ pc[c] = "inactivo"
    /\ tipo' = [tipo EXCEPT ![c] = "estado"]
    /\ pc' = [pc EXCEPT ![c] = "adquirir_estado"]
    /\ UNCHANGED <<gestor, xml_content, imagenes, futuros, resultados_por_indice, respuesta>>
    /\ UNCHANGED <<locales_nodo, procesador, biblioteca, disco>>

\* obtener_estado reading the fields without entering the lock
AdquirirEstado_sin_lock(c) ==
    /\ pc[c] = "adquirir_estado"
    /\ pc' = [pc EXCEPT ![c] = "leer_estado"]
    /\ UNCHANGED <<gestor, locales, respuesta>>
    /\ UNCHANGED <<locales_nodo, procesador, biblioteca, disco>>

\* `with self.lock:` of obtener_estado
AdquirirEstado(c) ==
    /\ pc[c] = "adquirir_estado"
    /\ lock_libre
    /\ lock' = c
    /\ pc' = [pc EXCEPT ![c] = "leer_estado"]
    /\ UNCHANGED <<imagenes_procesando, estado, locales, respuesta>>
    /\ UNCHANGED <<locales_nodo, procesador, biblioteca, disco>>

\* the keys estado, imagenes_procesando and capacidad_maxima are evaluated
LeerEstado(c) ==
    /\ pc[c] = "leer_estado"
    /\ respuesta' = [respuesta EXCEPT ![c] =
                         dict_estado(estado, imagenes_procesando, -1, FALSE)]
    /\ pc' = [pc EXCEPT ![c] = "leer_capacidad"]
    /\ UNCHANGED <<gestor, locales>>
    /\ UNCHANGED <<locales_nodo, procesador, biblioteca, disco>>

\* the keys capacidad_disponible and disponible are evaluated from the fields
\* as they are now, the dict is returned and the lock is left
LeerCapacidad(c) ==
    /\ pc[c] = "leer_capacidad"
    /\ respuesta' = [respuesta EXCEPT ![c] =
                         dict_estado(@.estado, @.imagenes_procesando,
                                     capacidad_maxima - imagenes_procesando,
                                     imagenes_procesando < capacidad_maxima)]
    /\ lock' = 0
    /\ pc' = [pc EXCEPT ![c] = "fin"]
    /\ UNCHANGED <<imagenes_procesando, estado, locales>>
    /\ UNCHANGED <<locales_nodo, procesador, biblioteca, disco>>


(***************************************************************************)
(* nodo.GestorNodos.procesar_xml_imagenes: the same admission and finally  *)
(* block, and between them a loop that loads one NodoOptimizado of         *)
(* objects.py per image and a loop that merges their outputs.  A run of    *)
(* SpecNodo is a run of the GestorNodos of nodo.py.  The temporary files   *)
(* are named by the clock and the loop index and live in the one working   *)
(* directory; writing a file and reading it back are two steps; whether a  *)
(* write succeeds is the environment's choice.                             *)
(***************************************************************************)
\* payloads of the batches of nodo.py
ImagenesNodo == {ImgA, ImgB, ImgVacia, ImgCorrupta}

\* NodoOptimizado.MAX_TRANSFORMACIONES of objects.py
MAX_TRANSFORMACIONES == 5

\* a NodoOptimizado of objects.py holding img
NodoOptimizado_objects(img) ==
    [clase |-> "objects", imagen_procesada |-> img, operaciones |-> <<>>,
     transformaciones_aplicadas |-> <<>>,
     MAX_TRANSFORMACIONES |-> MAX_TRANSFORMACIONES]

\* the methods of objects.NodoOptimizado
objects_escala_grises(nodo) ==
    transformar(nodo, Nombre("convert", "L"), Nombre("escala_grises", ""))

\* Image.resize raises ValueError for an empty size, before the assignment
objects_redimensionar(nodo, size) ==
    IF puede_aplicar_transformacion(nodo) /\ size = "0x0"
    THEN lanza(nodo)
    ELSE transformar(nodo, Nombre("resize", size), Nombre("redimensionar", size))

\* the box is handed to Image.crop as it is; crop raises ValueError when
\* right < left or lower < upper, before the assignment
objects_recortar(nodo, box) ==
    IF puede_aplicar_transformacion(nodo) /\ box = "10_10_5_5"
    THEN lanza(nodo)
    ELSE transformar(nodo, Nombre("crop", box), Nombre("recortar", box))

objects_rotar(nodo, angle) ==
    transformar(nodo, Nombre("rotate", angle), Nombre("rotar", angle))

objects_reflejar(nodo, direccion) ==
    transformar(nodo,
                Nombre("transpose", IF direccion = "vertical" THEN "FLIP_TOP_BOTTOM"
                                    ELSE "FLIP_LEFT_RIGHT"),
                Nombre("reflejar", direccion))

objects_desenfocar(nodo, radio) ==
    transformar(nodo, Nombre("GaussianBlur", radio), Nombre("desenfocar_radio", radio))

objects_perfilar(nodo, factor) ==
    transformar(nodo, Nombre("Sharpness", factor), Nombre("perfilar_factor", factor))

objects_ajustar_brillo_contraste(nodo, brillo_contraste) ==
    transformar(nodo, Nombre("Brightness_Contrast", brillo_contraste),
                Nombre("ajustar_brillo", brillo_contraste))

objects_insertar_texto(nodo, texto) ==
    transformar(nodo, Nombre("draw_text", texto), Nombre("insertar_texto", texto))

\* convertir_formato: the log entry for JPG, JPEG, PNG, TIF and TIFF (the decoded
\* images are RGB, so no mode conversion), nothing for any other format
convertir_formato(nodo, formato) ==
    IF puede_aplicar_transformacion(nodo)
    THEN IF upper(formato) \in {"JPG", "JPEG", "PNG", "TIF", "TIFF"}
         THEN retorna(registrar_transformacion(nodo,
                                               Nombre("convertir_a", upper(formato))))
         ELSE retorna(nodo)
    ELSE retorna(nodo)

\* objects.NodoOptimizado(temp_xml): base64 then gzip then Image.open, and the
\* test image whenever one of them raises or there is no text
cargar_desde_xml(datos_b64) ==
    LET datos_comprimidos == b64decode(datos_b64)
        datos_imagen == decompress(datos_comprimidos.bytes)
        img == Image_open(datos_imagen.bytes)
    IN  IF truthy(datos_b64) /\ datos_comprimidos.ok /\ datos_imagen.ok /\ img.ok
        THEN NodoOptimizado_objects(img.img)
        ELSE NodoOptimizado_objects("prueba")

\* nodo.generar_xml_optimizado(temp_output, "JPEG", calidad=80) read back with
\* ET.parse: the imagen element of the file, ok FALSE where the write raises
generar_xml_optimizado(nodo, escribe) ==
    [ok |-> escribe,
     imagen |-> [formato |-> "JPEG", calidad |-> 80,
                 transformaciones |-> nodo.transformaciones_aplicadas,
                 text |-> [img |-> nodo.imagen_procesada,
                           operaciones |-> nodo.operaciones, formato |-> "JPEG",
                           calidad |-> 80]]]

\* procesar_xml_imagenes of nodo.py up to the lock
LlamarLoteNodo(c, doc) ==
    /\ pc[c] = "inactivo"
    /\ tipo' = [tipo EXCEPT ![c] = "lote_nodo"]
    /\ xml_content' = [xml_content EXCEPT ![c] = doc]
    /\ IF ~doc.bien_formado
       THEN /\ respuesta' = [respuesta EXCEPT ![c] = crear_xml_error("XML malformado")]
            /\ pc' = [pc EXCEPT ![c] = "fin"]
            /\ UNCHANGED imagenes
       ELSE IF sin_imagenes(doc.imagenes)
       THEN /\ respuesta' = [respuesta EXCEPT ![c] =
                                crear_xml_error("No se encontraron imagenes en el XML")]
            /\ pc' = [pc EXCEPT ![c] = "fin"]
            /\ UNCHANGED imagenes
       ELSE /\ imagenes' = [imagenes EXCEPT ![c] = doc.imagenes]
            /\ pc' = [pc EXCEPT ![c] = "adquirir"]
            /\ UNCHANGED respuesta
    /\ UNCHANGED <<gestor, futuros, resultados_por_indice, locales_nodo, procesador, biblioteca, disco>>

\* the working directory.  A file is its name and what was written to it: the
\* text of the imagen element of a temp_batch file, the imagen element of a
\* temp_output_batch file
Archivo(prefijo, segundo, i) == [prefijo |-> prefijo, segundo |-> segundo, i |-> i]
ImagenNinguna ==
    [formato |-> "None", calidad |-> -1, transformaciones |-> <<>>, text |-> None_datos]
existe(nombre) == \E f \in archivos : f.nombre = nombre
leer(nombre) == CHOOSE f \in archivos : f.nombre = nombre
escribir(nombre, texto, imagen) ==
    {f \in archivos : f.nombre # nombre}
        \cup {[nombre |-> nombre, texto |-> texto, imagen |-> imagen]}

\* NodoOptimizado.cargar_imagen: the test image when the file does not exist,
\* else what _cargar_desde_xml makes of its first imagen element
cargar_imagen(imagen_path) ==
    IF existe(imagen_path) THEN cargar_desde_xml(leer(imagen_path).texto)
    ELSE NodoOptimizado_objects("prueba")

\* the next iteration of the image loop, or the merge loop after the last one
siguiente_imagen(c) ==
    IF iter[c] + 1 < Len(imagenes[c])
    THEN /\ iter' = [iter EXCEPT ![c] = @ + 1]
         /\ pc' = [pc EXCEPT ![c] = "bucle_imagenes"]
    ELSE /\ iter' = [iter EXCEPT ![c] = 0]
         /\ pc' = [pc EXCEPT ![c] = "bucle_fusion"]

\* an iteration of `for i, imagen_elem in enumerate(imagenes)` up to
\* temp_tree.write: the file is named by the clock and the loop index; escribe
\* tells whether the write succeeds
EscribirTemporal(c, escribe) ==
    /\ pc[c] = "bucle_imagenes"
    /\ iter[c] < Len(imagenes[c])
    /\ LET i == iter[c]
           datos_b64 == imagenes[c][i + 1].texto
           temp_xml == Archivo("temp_batch", reloj, i)
       IN  IF ~truthy(datos_b64)
           THEN /\ siguiente_imagen(c)
                /\ UNCHANGED <<xmls_temporales, archivos, root_respuesta>>
           ELSE /\ xmls_temporales' = [xmls_temporales EXCEPT ![c] = Append(@, temp_xml)]
                /\ IF escribe
                   THEN /\ archivos' = escribir(temp_xml, datos_b64, ImagenNinguna)
                        /\ pc' = [pc EXCEPT ![c] = "cargar"]
                        /\ UNCHANGED <<iter, root_respuesta>>
                   ELSE /\ root_respuesta' = [root_respuesta EXCEPT ![c].hijos =
                               Append(@, ElementoError("No space left on device", i))]
                        /\ siguiente_imagen(c)
                        /\ UNCHANGED archivos
    /\ UNCHANGED <<gestor, locales, respuesta, nodos_procesados, reloj>>
    /\ UNCHANGED <<procesador, biblioteca>>

\* the rest of the iteration: NodoOptimizado(temp_xml) reads the file that has
\* that name now
CargarNodo(c) ==
    /\ pc[c] = "cargar"
    /\ LET temp_xml == xmls_temporales[c][Len(xmls_temporales[c])]
       IN  nodos_procesados' = [nodos_procesados EXCEPT ![c] =
                                    Append(@, cargar_imagen(temp_xml))]
    /\ siguiente_imagen(c)
    /\ UNCHANGED <<gestor, locales, respuesta, root_respuesta, xmls_temporales>>
    /\ UNCHANGED <<procesador, biblioteca, disco>>

\* an iteration of `for j, nodo in enumerate(nodos_procesados)` up to the end
\* of generar_xml_optimizado; escribe tells whether it writes its file
GenerarXml(c, escribe) ==
    /\ pc[c] = "bucle_fusion"
    /\ iter[c] < Len(nodos_procesados[c])
    /\ LET j == iter[c]
           temp_output == Archivo("temp_output_batch", reloj, j)
           salida == generar_xml_optimizado(nodos_procesados[c][j + 1], escribe)
       IN  /\ xmls_temporales' = [xmls_temporales EXCEPT ![c] = Append(@, temp_output)]
           /\ IF salida.ok
              THEN /\ archivos' = escribir(temp_output, "None", salida.imagen)
                   /\ pc' = [pc EXCEPT ![c] = "leer"]
                   /\ UNCHANGED <<iter, root_respuesta>>
              ELSE /\ root_respuesta' = [root_respuesta EXCEPT ![c].errores = @ + 1]
                   /\ iter' = [iter EXCEPT ![c] = j + 1]
                   /\ UNCHANGED <<pc, archivos>>
    /\ UNCHANGED <<gestor, locales, respuesta, nodos_procesados, reloj>>
    /\ UNCHANGED <<procesador, biblioteca>>

\* the rest of the iteration: ET.parse(temp_output) reads the file that has that
\* name now and its imagen element is appended; without the file it raises
LeerSalida(c) ==
    /\ pc[c] = "leer"
    /\ LET j == iter[c]
           temp_output == xmls_temporales[c][Len(xmls_temporales[c])]
       IN  /\ root_respuesta' = [root_respuesta EXCEPT ![c] =
                  IF existe(temp_output)
                  THEN LET output_imagen == leer(temp_output).imagen
                       IN  [hijos |-> Append(@.hijos,
                                             ElementoImagen(output_imagen.formato,
                                                            output_imagen.calidad,
                                                            output_imagen.transformaciones,
                                                            j, output_imagen.text)),
                            procesadas |-> @.procesadas + 1,
                            errores |-> @.errores]
                  ELSE [hijos |-> @.hijos, procesadas |-> @.procesadas,
                        errores |-> @.errores + 1]]
           /\ iter' = [iter EXCEPT ![c] = j + 1]
    /\ pc' = [pc EXCEPT ![c] = "bucle_fusion"]
    /\ UNCHANGED <<gestor, locales, respuesta, nodos_procesados, xmls_temporales>>
    /\ UNCHANGED <<procesador, biblioteca, disco>>

\* after the merge loop: the counters are written, the files named in
\* xmls_temporales are removed and the document is returned
TerminarLoteNodo(c) ==
    /\ pc[c] = "bucle_fusion"
    /\ iter[c] = Len(nodos_procesados[c])
    /\ respuesta' = [respuesta EXCEPT ![c] =
           [raiz |-> "imagenes_procesadas", text |-> "None",
            total_procesadas |-> root_respuesta[c].procesadas,
            total_errores |-> root_respuesta[c].errores,
            hijos |-> root_respuesta[c].hijos]]
    /\ archivos' = {f \in archivos : f.nombre \notin Rango(xmls_temporales[c])}
    /\ pc' = [pc EXCEPT ![c] = "liberar"]
    /\ UNCHANGED <<gestor, locales, locales_nodo, reloj>>
    /\ UNCHANGED <<procesador, biblioteca>>

\* a second passes on the clock that names the files
Tic ==
    /\ reloj < MaxReloj
    /\ reloj' = reloj + 1
    /\ UNCHANGED archivos
    /\ UNCHANGED <<vars_gestor, procesador, biblioteca>>

(***************************************************************************)
(* image_processor.ImageProcessor.process_images_batch.  An item of the    *)
(* list is the bytes of an image (its transformation list is empty); the   *)
(* bytes are those of the payloads above, "" for no bytes.                  *)
(***************************************************************************)
Min(a, b) == IF a <= b THEN a ELSE b
Max(a, b) == IF a >= b THEN a ELSE b

\* len(img[0])
len(b) ==
    CASE b = "" -> 0
      [] b = "B" -> 2
      [] OTHER -> 1

RECURSIVE sum(_)
sum(s) == IF s = <<>> THEN 0 ELSE len(Head(s)) + sum(Tail(s))

BytesProc == {"A", "B", "basura", ""}

Permutaciones(n) ==
    {f \in [1..n -> 1..n] : \A j, k \in 1..n : f[j] = f[k] => j = k}

\* Config.MAX_BATCH_SIZE
MAX_BATCH_SIZE == 1000000

\* Config.get_optimal_chunk_size: ok is FALSE where the division raises
\* ZeroDivisionError
get_optimal_chunk_size(batch_size, image_size_avg) ==
    LET memory_per_image == image_size_avg * 3
    IN  IF memory_per_image * MAX_WORKERS = 0
        THEN [ok |-> FALSE, v |-> 0]
        ELSE [ok |-> TRUE,
              v |-> Max(1, Min(CHUNK_SIZE,
                               Min(MemoriaDisponible \div (memory_per_image * MAX_WORKERS),
                                   batch_size \div MAX_WORKERS)))]

\* Config.USE_NUMPY
USE_NUMPY == TRUE

\* img.format of the decoded image, or 'JPEG'
formato_nativo(image_data) == IF image_data = "B" THEN "PNG" ELSE "JPEG"

\* the operation types apply_single_transformation_optimized has a branch for
TiposConocidos ==
    {"grayscale", "resize", "crop", "rotate", "reflect", "blur", "sharpen",
     "brightness_contrast", "watermark", "autocontrast", "invert"}

\* an unknown type that is rejected with an exception instead of passed through:
\* the image comes back marked as failed
apply_single_transformation_rechaza(img, trans) ==
    IF trans.type \in TiposConocidos
    THEN [img EXCEPT !.operaciones = Append(@, Nombre(trans.type, "PIL"))]
    ELSE [img EXCEPT !.operaciones = Append(@, Nombre("error", trans.type))]

\* apply_single_transformation_optimized: the image after the PIL call of the
\* operation's type, and the image itself for any other type
apply_single_transformation_optimized(img, trans) ==
    IF trans.type \in TiposConocidos
    THEN [img EXCEPT !.operaciones = Append(@, Nombre(trans.type, "PIL"))]
    ELSE img

\* the PIL path of process_single_image_optimized: every operation of the list
RECURSIVE aplicar_todas(_, _)
aplicar_todas(img, transformations) ==
    IF transformations = <<>> THEN img
    ELSE aplicar_todas(apply_single_transformation_optimized(img, Head(transformations)),
                       Tail(transformations))

\* output_format after the loop of the PIL path: the format of the last
\* convert operation, upper-cased and with JPG read as JPEG
RECURSIVE formato_de_salida(_, _)
formato_de_salida(output_format, transformations) ==
    IF transformations = <<>> THEN output_format
    ELSE LET trans == Head(transformations)
             f == upper(get(trans.format, "JPEG"))
         IN  formato_de_salida(IF trans.type = "convert"
                               THEN (IF f = "JPG" THEN "JPEG" ELSE f)
                               ELSE output_format,
                               Tail(transformations))

\* apply_numpy_transformations: array arithmetic for three types, PIL for the rest
RECURSIVE apply_numpy_transformations(_, _)
apply_numpy_transformations(img, transformations) ==
    IF transformations = <<>> THEN img
    ELSE LET trans == Head(transformations)
             sig == IF trans.type \in {"grayscale", "brightness_contrast", "invert"}
                    THEN [img EXCEPT !.operaciones = Append(@, Nombre(trans.type, "numpy"))]
                    ELSE apply_single_transformation_optimized(img, trans)
         IN  apply_numpy_transformations(sig, Tail(transformations))

\* process_single_image_optimized: the image after its operations, written in
\* output_format; ok is FALSE where it raises (Image.open or save fails)
process_single_image_optimized(image_data, transformations, use_numpy) ==
    LET abierta == Image_open(image_data)
        img == [img |-> abierta.img, operaciones |-> <<>>]
        original_format == formato_nativo(image_data)
        por_numpy == use_numpy /\ USE_NUMPY /\ Len(transformations) > 2
        final == IF por_numpy
                 THEN apply_numpy_transformations(img, transformations)
                 ELSE aplicar_todas(img, transformations)
        output_format == IF por_numpy THEN original_format
                         ELSE formato_de_salida(original_format, transformations)
    IN  IF abierta.ok /\ output_format \in FormatosPIL
        THEN [ok |-> TRUE,
              salida |-> [img |-> final.img, operaciones |-> final.operaciones,
                          formato |-> output_format]]
        ELSE [ok |-> FALSE,
              salida |-> [img |-> "None", operaciones |-> <<>>, formato |-> "None"]]

\* ImageProcessor.set_status; error "None" and processed -1 stand for None
set_status(st, state, error, processed) ==
    [state |-> state,
     error |-> IF error # "None" THEN error ELSE st.error,
     processed |-> IF processed # -1 THEN processed ELSE st.processed]

\* ImageProcessor._process_chunk_threaded: future.result() in submission order
process_chunk_threaded(chunk, use_numpy) ==
    [k \in 1..Len(chunk) |-> process_single_image_optimized(chunk[k], <<>>, use_numpy)]

\* ImageProcessor._process_chunk_processes: future.result() in the order
\* as_completed yields the futures; orden[k] is the k-th future to complete
process_chunk_processes(chunk, use_numpy, orden) ==
    [k \in 1..Len(chunk) |-> process_single_image_optimized(chunk[orden[k]], <<>>,
                                                            use_numpy)]

locales_proc == <<images, results, chunk_size, desde>>

\* process_images_batch is entered: set_status("processing", None, 0)
ProcessImagesBatch(h, imgs) ==
    /\ pcp[h] = "inactivo"
    /\ images' = [images EXCEPT ![h] = imgs]
    /\ status' = set_status(status, "processing", "None", 0)
    /\ pcp' = [pcp EXCEPT ![h] = "preparar"]
    /\ UNCHANGED <<results, chunk_size, desde, excepcion, vars_gestor, biblioteca, disco>>

\* the size test, avg_size and chunk_size; an exception inside the try block
\* sets the status to error and is raised again
Preparar(h) ==
    /\ pcp[h] = "preparar"
    /\ LET total_images == Len(images[h])
           muestra == Min(100, total_images)
           avg_size == sum(SubSeq(images[h], 1, muestra)) \div muestra
           optimo == get_optimal_chunk_size(total_images, avg_size)
       IN  IF total_images > MAX_BATCH_SIZE
           THEN /\ pcp' = [pcp EXCEPT ![h] = "excepcion"]
                /\ excepcion' = [excepcion EXCEPT ![h] = "Batch size exceeds maximum"]
                /\ UNCHANGED <<status, chunk_size>>
           ELSE IF muestra = 0 \/ ~optimo.ok
           THEN /\ status' = set_status(status, "error",
                                        "integer division or modulo by zero", -1)
                /\ pcp' = [pcp EXCEPT ![h] = "excepcion"]
                /\ excepcion' = [excepcion EXCEPT ![h] =
                                    "integer division or modulo by zero"]
                /\ UNCHANGED chunk_size
           ELSE /\ chunk_size' = [chunk_size EXCEPT ![h] = optimo.v]
                /\ pcp' = [pcp EXCEPT ![h] = "chunks"]
                /\ UNCHANGED <<status, excepcion>>
    /\ results' = [results EXCEPT ![h] = <<>>]
    /\ desde' = [desde EXCEPT ![h] = 0]
    /\ UNCHANGED <<images, vars_gestor, biblioteca, disco>>

\* what one iteration of the chunk loop does with the results of its chunk
recoger_chunk(h, chunk_results) ==
    IF \A k \in DOMAIN chunk_results : chunk_results[k].ok
    THEN /\ results' = [results EXCEPT ![h] =
                           @ \o [k \in DOMAIN chunk_results |-> chunk_results[k].salida]]
         /\ status' = set_status(status, "processing", "None", Len(results'[h]))
         /\ desde' = [desde EXCEPT ![h] = @ + chunk_size[h]]
         /\ UNCHANGED <<pcp, excepcion>>
    ELSE /\ status' = set_status(status, "error", "Image processing error", -1)
         /\ pcp' = [pcp EXCEPT ![h] = "excepcion"]
         /\ excepcion' = [excepcion EXCEPT ![h] = "Image processing error"]
         /\ UNCHANGED <<results, desde>>

\* one iteration of `for i in range(0, total_images, chunk_size)`; memoria is
\* what memory_manager.check_memory() answers after the cleanup
ProcesarChunk(h, memoria) ==
    /\ pcp[h] = "chunks"
    /\ desde[h] < Len(images[h])
    /\ LET chunk == SubSeq(images[h], desde[h] + 1,
                           Min(desde[h] + chunk_size[h], Len(images[h])))
           use_numpy == USE_NUMPY /\ Len(images[h]) > 1000
       IN  IF ~memoria
           THEN /\ status' = set_status(status, "error",
                                        "Insufficient memory for processing", -1)
                /\ pcp' = [pcp EXCEPT ![h] = "excepcion"]
                /\ excepcion' = [excepcion EXCEPT ![h] =
                                    "Insufficient memory for processing"]
                /\ UNCHANGED <<results, desde>>
           ELSE IF Len(chunk) < UmbralProcesos
           THEN recoger_chunk(h, process_chunk_threaded(chunk, use_numpy))
           ELSE \E orden \in Permutaciones(Len(chunk)) :
                    recoger_chunk(h, process_chunk_processes(chunk, use_numpy, orden))
    /\ UNCHANGED <<images, chunk_size, vars_gestor, biblioteca, disco>>

\* after the last chunk: set_status("active") and return results
TerminarBatch(h) ==
    /\ pcp[h] = "chunks"
    /\ desde[h] >= Len(images[h])
    /\ status' = set_status(status, "active", "None", -1)
    /\ pcp' = [pcp EXCEPT ![h] = "retornado"]
    /\ UNCHANGED <<locales_proc, excepcion, vars_gestor, biblioteca, disco>>

\* the caller has the list or the exception and may call again
Reiniciar(h) ==
    /\ pcp[h] \in {"retornado", "excepcion"}
    /\ pcp' = [pcp EXCEPT ![h] = "inactivo"]
    /\ images' = [images EXCEPT ![h] = <<>>]
    /\ results' = [results EXCEPT ![h] = <<>>]
    /\ chunk_size' = [chunk_size EXCEPT ![h] = 0]
    /\ desde' = [desde EXCEPT ![h] = 0]
    /\ excepcion' = [excepcion EXCEPT ![h] = "None"]
    /\ UNCHANGED <<status, vars_gestor, biblioteca, disco>>

(***************************************************************************)
(* A NodoOptimizado under direct calls of its transformation methods, of   *)
(* either class, with arguments of the declared types.                     *)
(***************************************************************************)
\* the calls made on an object of objects.py and on one of objects2.py
MetodosObjects ==
    {Nombre("escala_grises", ""), Nombre("redimensionar", "200x200"),
     Nombre("redimensionar", "0x0"), Nombre("recortar", "10_10_5_5"),
     Nombre("rotar", "90"), Nombre("convertir_formato", "PNG"),
     Nombre("convertir_formato", "XYZ")}
MetodosObjects2 ==
    {Nombre("escala_grises", ""), Nombre("redimensionar", "0x0"),
     Nombre("recortar", "0_0_100_100"), Nombre("recortar", "5_5_5_5"),
     Nombre("rotar", "90"), Nombre("reflejar", "horizontal"),
     Nombre("desenfocar", "20"), Nombre("insertar_texto", "hola")}

\* nodo.<clave>(<arg>) for an object of objects.py
llamar_objects(nodo, m) ==
    CASE m.clave = "escala_grises" -> objects_escala_grises(nodo)
      [] m.clave = "redimensionar" -> objects_redimensionar(nodo, m.arg)
      [] m.clave = "recortar" -> objects_recortar(nodo, m.arg)
      [] m.clave = "rotar" -> objects_rotar(nodo, m.arg)
      [] m.clave = "reflejar" -> objects_reflejar(nodo, m.arg)
      [] m.clave = "desenfocar" -> objects_desenfocar(nodo, m.arg)
      [] m.clave = "perfilar" -> objects_perfilar(nodo, m.arg)
      [] m.clave = "ajustar_brillo_contraste" ->
             objects_ajustar_brillo_contraste(nodo, m.arg)
      [] m.clave = "insertar_texto" -> objects_insertar_texto(nodo, m.arg)
      [] m.clave = "convertir_formato" -> convertir_formato(nodo, m.arg)

\* nodo.<clave>(<arg>) for an object of objects2.py
llamar_objects2(nodo, m) ==
    CASE m.clave = "escala_grises" -> escala_grises(nodo)
      [] m.clave = "redimensionar" -> redimensionar(nodo, m.arg)
      [] m.clave = "recortar" -> recortar(nodo, m.arg)
      [] m.clave = "rotar" -> rotar(nodo, m.arg)
      [] m.clave = "reflejar" -> reflejar(nodo, m.arg)
      [] m.clave = "desenfocar" -> desenfocar(nodo, m.arg)
      [] m.clave = "perfilar" -> perfilar(nodo, m.arg)
      [] m.clave = "ajustar_brillo_contraste" -> ajustar_brillo_contraste(nodo, m.arg)
      [] m.clave = "ajustar_nitidez" -> ajustar_nitidez(nodo, m.arg)
      [] m.clave = "ajustar_saturacion" -> ajustar_saturacion(nodo, m.arg)
      [] m.clave = "insertar_texto" -> insertar_texto(nodo, m.arg)

\* NodoOptimizado() of one of the two modules
Construir(clase) ==
    /\ objeto = None_nodo
    /\ objeto' = IF clase = "objects" THEN NodoOptimizado_objects("prueba")
                 ELSE NodoOptimizado("prueba")
    /\ UNCHANGED <<llamada, lanzada, args, retorno>>
    /\ UNCHANGED <<vars_gestor, procesador, disco>>

\* one method call on the object
LlamarMetodo(m) ==
    /\ objeto # None_nodo
    /\ LET r == IF objeto.clase = "objects" THEN llamar_objects(objeto, m)
                ELSE llamar_objects2(objeto, m)
       IN  /\ objeto' = r.nodo
           /\ lanzada' = r.lanzada
    /\ llamada' = m
    /\ UNCHANGED <<args, retorno>>
    /\ UNCHANGED <<vars_gestor, procesador, disco>>

\* the object is dropped
Desechar ==
    /\ objeto # None_nodo
    /\ objeto' = None_nodo
    /\ llamada' = Nombre("None", "")
    /\ lanzada' = FALSE
    /\ UNCHANGED <<args, retorno>>
    /\ UNCHANGED <<vars_gestor, procesador, disco>>

(***************************************************************************)
(* process_single_image_optimized called on one item.                      *)
(***************************************************************************)
\* a structured operation: its type and, for convert, its format
Op(type, format) == [type |-> type, format |-> format]

\* the operations of the items
Operaciones ==
    {Op("grayscale", "None"), Op("rotate", "None"), Op("invert", "None"),
     Op("sepia", "None"), Op("convert", "jpg"), Op("convert", "png")}

NingunArgumento == [image_data |-> "None", transformations |-> <<>>, use_numpy |-> FALSE]
NingunaSalida ==
    [ok |-> FALSE, salida |-> [img |-> "None", operaciones |-> <<>>, formato |-> "None"]]

\* process_single_image_optimized(image_data, transformations, use_numpy)
ProcesarUna(image_data, transformations, use_numpy) ==
    /\ args = NingunArgumento
    /\ pc[1] = "inactivo"
    /\ args' = [image_data |-> image_data, transformations |-> transformations,
                use_numpy |-> use_numpy]
    /\ retorno' = process_single_image_optimized(image_data, transformations, use_numpy)
    /\ UNCHANGED <<objeto, llamada, lanzada>>
    /\ UNCHANGED <<vars_gestor, procesador, disco>>

\* the result is dropped
Olvidar ==
    /\ args # NingunArgumento
    /\ args' = NingunArgumento
    /\ retorno' = NingunaSalida
    /\ UNCHANGED <<objeto, llamada, lanzada>>
    /\ UNCHANGED <<vars_gestor, procesador, disco>>

(***************************************************************************)
(* xml_handler.py: _parse_value of XMLHandler and of StreamingXMLParser,   *)
(* and parse_xml on a document of one image with one transformation that   *)
(* has one parameter.  A str is the sequence of its characters.            *)
(***************************************************************************)
\* the longest parameter text drawn from Simbolos
MaxCaracteres == 4

Digitos == {"1", "2"}
Simbolos == Digitos \cup {"-", ".", " ", "e"}

\* the parameter texts of the model: every text over Simbolos up to
\* MaxCaracteres, and the literals in several spellings
Palabra_true == <<"t", "r", "u", "e">>
Palabra_false == <<"f", "a", "l", "s", "e">>
Valores ==
    SeqsHasta(Simbolos, MaxCaracteres)
        \cup {Palabra_true, Palabra_false, <<"T", "r", "u", "e">>,
              <<"F", "A", "L", "S", "E">>, <<" ">> \o Palabra_true \o <<" ">>}

\* str.strip()
RECURSIVE str_lstrip(_)
str_lstrip(t) == IF t # <<>> /\ Head(t) = " " THEN str_lstrip(Tail(t)) ELSE t

RECURSIVE str_rstrip(_)
str_rstrip(t) ==
    IF t # <<>> /\ t[Len(t)] = " " THEN str_rstrip(SubSeq(t, 1, Len(t) - 1)) ELSE t

str_strip(t) == str_rstrip(str_lstrip(t))

\* str.lower()
minuscula(ch) ==
    CASE ch = "T" -> "t" [] ch = "R" -> "r" [] ch = "U" -> "u" [] ch = "E" -> "e"
      [] ch = "F" -> "f" [] ch = "A" -> "a" [] ch = "L" -> "l" [] ch = "S" -> "s"
      [] OTHER -> ch
str_lower(t) == [k \in DOMAIN t |-> minuscula(t[k])]

\* str.replace(ch, '')
str_replace(t, ch) == SelectSeq(t, LAMBDA x : x # ch)

\* str.isdigit()
str_isdigit(t) == t # <<>> /\ \A k \in DOMAIN t : t[k] \in Digitos

\* the number a run of decimal digits denotes
RECURSIVE valor_decimal(_)
valor_decimal(t) ==
    IF t = <<>> THEN 0
    ELSE 10 * valor_decimal(SubSeq(t, 1, Len(t) - 1))
             + (IF t[Len(t)] = "1" THEN 1 ELSE 2)

\* what a value is: True/False, an int, a float (kept as its text), a str
Valor(clase, b, n, t) == [lanza |-> FALSE, clase |-> clase, b |-> b, n |-> n, t |-> t]
ValueError == [lanza |-> TRUE, clase |-> "ValueError", b |-> FALSE, n |-> 0, t |-> <<>>]

\* int(str) on a text of digits and '-': an optional sign, then digits
str_int(t) ==
    IF str_isdigit(t) THEN Valor("int", FALSE, valor_decimal(t), <<>>)
    ELSE IF t # <<>> /\ Head(t) = "-" /\ str_isdigit(Tail(t))
    THEN Valor("int", FALSE, 0 - valor_decimal(Tail(t)), <<>>)
    ELSE ValueError

\* float(str) on a text of digits, '-' and '.': an optional sign, then digits
\* around one point
str_float(t) ==
    LET cuerpo == IF t # <<>> /\ Head(t) = "-" THEN Tail(t) ELSE t
    IN  IF /\ "-" \notin Rango(cuerpo)
           /\ Len(SelectSeq(cuerpo, LAMBDA x : x = ".")) <= 1
           /\ str_isdigit(str_replace(cuerpo, "."))
        THEN Valor("float", FALSE, 0, t)
        ELSE ValueError

\* XMLHandler._parse_value
XMLHandler_parse_value(texto) ==
    LET value == str_strip(texto)
    IN  IF str_lower(value) \in {Palabra_true, Palabra_false}
        THEN Valor("bool", str_lower(value) = Palabra_true, 0, <<>>)
        ELSE IF str_isdigit(str_replace(str_replace(value, "-"), "."))
        THEN (IF "." \in Rango(value) THEN str_float(value) ELSE str_int(value))
        ELSE Valor("str", FALSE, 0, value)

\* StreamingXMLParser._parse_value
StreamingXMLParser_parse_value(texto) ==
    LET value == str_strip(texto)
    IN  IF str_lower(value) \in {Palabra_true, Palabra_false}
        THEN Valor("bool", str_lower(value) = Palabra_true, 0, <<>>)
        ELSE IF "." \in Rango(value)
                /\ str_isdigit(str_replace(str_replace(value, "."), "-"))
        THEN str_float(value)
        ELSE IF str_isdigit(str_replace(value, "-"))
        THEN str_int(value)
        ELSE Valor("str", FALSE, 0, value)

\* XMLHandler.parse_xml on <image><data>..</data><transformation type="rotate">
\* <angle>texto</angle></transformation></image>: the value of angle in the one
\* trans_dict returned (a parameter without text is left out: clase "None"),
\* or the exception _parse_value raised, which nothing catches
parse_xml(texto) ==
    IF texto = <<>> THEN Valor("None", FALSE, 0, <<>>)
    ELSE XMLHandler_parse_value(texto)

\* _parse_value of one of the two classes is called on its own
LlamarParseValue(clase, texto) ==
    /\ llamada = Nombre("None", "")
    /\ objeto = None_nodo /\ args = NingunArgumento /\ pc[1] = "inactivo"
    /\ llamada' = Nombre("_parse_value", clase)
    /\ args' = [texto |-> texto]
    /\ LET r == IF clase = "XMLHandler" THEN XMLHandler_parse_value(texto)
                ELSE StreamingXMLParser_parse_value(texto)
       IN  /\ retorno' = r
           /\ lanzada' = r.lanza
    /\ UNCHANGED objeto
    /\ UNCHANGED <<vars_gestor, procesador, disco>>

LlamarParseXml(texto) ==
    /\ llamada = Nombre("None", "")
    /\ objeto = None_nodo /\ args = NingunArgumento /\ pc[1] = "inactivo"
    /\ llamada' = Nombre("parse_xml", "XMLHandler")
    /\ args' = [texto |-> texto]
    /\ retorno' = parse_xml(texto)
    /\ lanzada' = parse_xml(texto).lanza
    /\ UNCHANGED objeto
    /\ UNCHANGED <<vars_gestor, procesador, disco>>

\* the call is over and its result dropped
Volver ==
    /\ llamada # Nombre("None", "")
    /\ objeto = None_nodo
    /\ llamada' = Nombre("None", "")
    /\ args' = NingunArgumento
    /\ retorno' = NingunaSalida
    /\ lanzada' = FALSE
    /\ UNCHANGED objeto
    /\ UNCHANGED <<vars_gestor, procesador, disco>>

(***************************************************************************)
(* The numbers of the filters and of the crop boxes.  A float is the       *)
(* integer number of its ten-thousandths (1.0 is Unidad): every division   *)
(* of the code is exact on the levels of the model.                        *)
(***************************************************************************)
\* how far outside 0..100 the levels of a token go
MaxExceso == 5
\* the largest width and height of an image
MaxLado == 2

Unidad == 10000

Niveles == (0 - MaxExceso)..(100 + MaxExceso)
Lados == 1..MaxLado
Coordenadas == (0 - 1)..(MaxLado + 1)

\* max(lo, min(hi, x))
acotar(lo, hi, x) == Max(lo, Min(hi, x))

\* nodo2, desenfocar token: valor = max(0, min(100, valor));
\* radio = max(0.1, min(10.0, valor / 10.0))
radio_del_token(valor) ==
    acotar(Unidad \div 10, 10 * Unidad, (acotar(0, 100, valor) * Unidad) \div 10)

\* objects2.desenfocar(nivel): radio = max(0.0, min(50.0, nivel / 2.0)), the
\* argument of ImageFilter.GaussianBlur; no filter when it is 0
desenfocar_radio(nivel) == acotar(0, 50 * Unidad, nivel \div 2)

\* nodo2, ajustar_brillo token: brillo_val = max(0, min(100, brillo_val));
\* brillo = max(0.1, min(2.0, brillo_val / 50.0)); the same for contraste
brillo_del_token(brillo_val) ==
    acotar(Unidad \div 10, 2 * Unidad, (acotar(0, 100, brillo_val) * Unidad) \div 50)

\* objects2.ajustar_brillo_contraste(brillo, contraste):
\* factor_brillo = max(0.0, min(2.0, brillo / 50.0)), the argument of
\* enhancer.enhance; the same for contraste
factor_brillo(brillo) == acotar(0, 2 * Unidad, brillo \div 50)

\* the two numbers a call hands to the codec
Numeros(a, b) == [a |-> a, b |-> b]

\* the token desenfocar_<valor> of a nodo2 image: nodo.desenfocar(radio)
LlamarDesenfocar(valor) ==
    /\ llamada = Nombre("None", "")
    /\ objeto = None_nodo /\ args = NingunArgumento /\ pc[1] = "inactivo"
    /\ llamada' = Nombre("desenfocar", "nodo2")
    /\ args' = Numeros(valor, 0)
    /\ retorno' = Numeros(desenfocar_radio(radio_del_token(valor)), 0)
    /\ lanzada' = FALSE
    /\ UNCHANGED objeto
    /\ UNCHANGED <<vars_gestor, procesador, disco>>

\* the token ajustar_brillo_<B>_contraste_<C> of a nodo2 image:
\* nodo.ajustar_brillo_contraste(brillo, contraste)
LlamarBrillo(brillo_val, contraste_val) ==
    /\ llamada = Nombre("None", "")
    /\ objeto = None_nodo /\ args = NingunArgumento /\ pc[1] = "inactivo"
    /\ llamada' = Nombre("ajustar_brillo", "nodo2")
    /\ args' = Numeros(brillo_val, contraste_val)
    /\ retorno' = Numeros(factor_brillo(brillo_del_token(brillo_val)),
                          factor_brillo(brillo_del_token(contraste_val)))
    /\ lanzada' = FALSE
    /\ UNCHANGED objeto
    /\ UNCHANGED <<vars_gestor, procesador, disco>>

\* a box (left, upper, right, lower), and an image as the region of the
\* decoded picture it shows
Caja(x1, y1, x2, y2) == [x1 |-> x1, y1 |-> y1, x2 |-> x2, y2 |-> y2]
Imagen(x, y, width, height) == [x |-> x, y |-> y, width |-> width, height |-> height]

\* Image.crop(box) on a box inside the image
crop(img, box) ==
    Imagen(img.x + box.x1, img.y + box.y1, box.x2 - box.x1, box.y2 - box.y1)

\* apply_single_transformation_optimized, crop: the box handed to img.crop
caja_de_crop(img, trans) ==
    Caja(Max(0, trans.x1), Max(0, trans.y1),
         Min(img.width, trans.x2), Min(img.height, trans.y2))

\* img.crop((left, top, right, bottom)) is called with the parameters left,
\* top, right, bottom of the operation on a width x height image.  For
\* right < left or lower < upper a recent Pillow raises ValueError and an older
\* one returns an image without pixels: acepta is which of the two the build does
LlamarCrop(width, height, trans, acepta) ==
    /\ llamada = Nombre("None", "")
    /\ objeto = None_nodo /\ args = NingunArgumento /\ pc[1] = "inactivo"
    /\ llamada' = Nombre("crop", "image_processor")
    /\ args' = [img |-> Imagen(0, 0, width, height), trans |-> trans]
    /\ LET img == Imagen(0, 0, width, height)
           box == caja_de_crop(img, trans)
           invertida == box.x2 < box.x1 \/ box.y2 < box.y1
       IN  /\ invertida \/ acepta
           /\ lanzada' = (invertida /\ ~acepta)
           /\ retorno' = [box |-> box,
                          img |-> IF invertida
                                  THEN (IF acepta
                                        THEN Imagen(box.x1, box.y1,
                                                    Max(0, box.x2 - box.x1),
                                                    Max(0, box.y2 - box.y1))
                                        ELSE img)
                                  ELSE crop(img, box)]
    /\ UNCHANGED objeto
    /\ UNCHANGED <<vars_gestor, procesador, disco>>

\* the log entry recortar_{x1}_{y1}_{x2}_{y2}
NombreCaja(box) ==
    [clave |-> "recortar", x1 |-> box.x1, y1 |-> box.y1, x2 |-> box.x2, y2 |-> box.y2]

\* a recortar that crops and logs the box as it was given
recortar_sin_acotar(nodo, box) ==
    IF puede_aplicar_transformacion(nodo)
    THEN IF box.x2 > box.x1 /\ box.y2 > box.y1
         THEN retorna(registrar_transformacion(
                          [nodo EXCEPT !.imagen_procesada = crop(@, box)],
                          NombreCaja(box)))
         ELSE retorna(nodo)
    ELSE retorna(nodo)

\* objects2.NodoOptimizado.recortar on an image with its size
recortar_caja(nodo, box) ==
    IF puede_aplicar_transformacion(nodo)
    THEN LET width == nodo.imagen_procesada.width
             height == nodo.imagen_procesada.height
             x1 == Max(0, Min(box.x1, width))
             y1 == Max(0, Min(box.y1, height))
             x2 == Max(0, Min(box.x2, width))
             y2 == Max(0, Min(box.y2, height))
         IN  IF x2 > x1 /\ y2 > y1
             THEN retorna(registrar_transformacion(
                              [nodo EXCEPT !.imagen_procesada =
                                               crop(@, Caja(x1, y1, x2, y2))],
                              NombreCaja(Caja(x1, y1, x2, y2))))
             ELSE retorna(nodo)
    ELSE retorna(nodo)

\* the object after n calls of escala_grises
RECURSIVE tras_escala_grises(_, _)
tras_escala_grises(nodo, n) ==
    IF n = 0 THEN nodo ELSE tras_escala_grises(escala_grises(nodo).nodo, n - 1)

\* NodoOptimizado() of objects2.py on a width x height image, then n calls of
\* escala_grises
ConstruirImagen(width, height, n) ==
    /\ llamada = Nombre("None", "")
    /\ objeto = None_nodo /\ args = NingunArgumento /\ pc[1] = "inactivo"
    /\ objeto' = [tras_escala_grises(NodoOptimizado(Imagen(0, 0, width, height)), n)
                      EXCEPT !.operaciones = <<>>]
    /\ UNCHANGED <<llamada, lanzada, args, retorno>>
    /\ UNCHANGED <<vars_gestor, procesador, disco>>

\* nodo.recortar(box) on that object
LlamarRecortar(box) ==
    /\ llamada = Nombre("None", "")
    /\ objeto # None_nodo
    /\ llamada' = Nombre("recortar", "objects2")
    /\ args' = [img |-> objeto.imagen_procesada, trans |-> box]
    /\ LET r == recortar_caja(objeto, box)
       IN  /\ objeto' = r.nodo
           /\ lanzada' = r.lanzada
    /\ UNCHANGED retorno
    /\ UNCHANGED <<vars_gestor, procesador, disco>>

\* the call is over, its result and its object dropped
VolverNumeros ==
    /\ llamada # Nombre("None", "")
    /\ llamada' = Nombre("None", "")
    /\ objeto' = None_nodo
    /\ args' = NingunArgumento
    /\ retorno' = NingunaSalida
    /\ lanzada' = FALSE
    /\ UNCHANGED <<vars_gestor, procesador, disco>>

\* the client of the round trip: it reads the transformaciones attribute of
\* each imagen of the response and sends the same images again with that
\* attribute; the second call runs as process_xml_batch does from its start
Reenviar(c) ==
    /\ pc[c] = "fin"
    /\ tipo[c] = "lote"
    /\ ~xml_content[c].reenviado
    /\ respuesta[c].raiz = "imagenes_procesadas"
    /\ Len(respuesta[c].hijos) = Len(imagenes[c])
    /\ \A k \in DOMAIN respuesta[c].hijos : respuesta[c].hijos[k].error = "None"
    /\ LET doc == [bien_formado |-> TRUE, reenviado |-> TRUE,
                   imagenes |-> [k \in DOMAIN imagenes[c] |->
                       [imagenes[c][k] EXCEPT !.transformaciones =
                            respuesta[c].hijos[k].transformaciones]]]
       IN  /\ xml_content' = [xml_content EXCEPT ![c] = doc]
           /\ imagenes' = [imagenes EXCEPT ![c] = doc.imagenes]
    /\ pc' = [pc EXCEPT ![c] = "adquirir"]
    /\ futuros' = [futuros EXCEPT ![c] = <<>>]
    /\ resultados_por_indice' = [resultados_por_indice EXCEPT ![c] = <<>>]
    /\ respuesta' = [respuesta EXCEPT ![c] = NingunaRespuesta]
    /\ UNCHANGED <<gestor, tipo, locales_nodo, procesador, biblioteca, disco>>

(***************************************************************************)
(* image_processor.ImageCache.  get and put run under self.lock from their *)
(* first to their last statement, so each call is one step.  The dict is a *)
(* function on the keys it holds; the deque is a sequence, left end first. *)
(***************************************************************************)
\* the largest maxsize a cache is built with
MaxCache == 2

\* how long access_order grows before the model stops calling put
MaxOrden == 4

\* keys, one more than the largest cache holds, and values
ClavesCache == 1..(MaxCache + 1)
ValoresCache == {"v", "w"}

\* ImageCache(maxsize).  accesos is not a field of the class: the keys in the
\* order of their most recent put or successful get, oldest first, which the
\* properties compare access_order with
ImageCache(maxsize) ==
    [clase |-> "ImageCache", cache |-> <<>>, access_order |-> <<>>,
     maxsize |-> maxsize, accesos |-> <<>>]

\* deque.remove(x): the deque without the first occurrence of x
RECURSIVE deque_remove(_, _)
deque_remove(d, x) ==
    IF d = <<>> THEN <<>>
    ELSE IF Head(d) = x THEN Tail(d)
    ELSE <<Head(d)>> \o deque_remove(Tail(d), x)

\* the dict after `del d[k]` and after `d[k] = v`
dict_del(d, k) == [j \in DOMAIN d \ {k} |-> d[j]]
dict_set(d, k, v) == [j \in DOMAIN d \cup {k} |-> IF j = k THEN v ELSE d[j]]

\* key becomes the most recently accessed
acceder(accesos, key) == Append(SelectSeq(accesos, LAMBDA x : x # key), key)

\* the outcome of a call on the cache: the object after it, what it returned
\* and the exception that left it
Resultado(obj, valor, error) == [obj |-> obj, valor |-> valor, error |-> error]

\* ImageCache.get
ImageCache_get(self, key) ==
    IF key \in DOMAIN self.cache
    THEN IF key \notin Rango(self.access_order)
         THEN Resultado(self, "None", "ValueError")
         ELSE Resultado([self EXCEPT
                             !.access_order = Append(deque_remove(@, key), key),
                             !.accesos = acceder(@, key)],
                        self.cache[key], "None")
    ELSE Resultado(self, "None", "None")

\* a put that never evicts
ImageCache_put_sin_desalojo(self, key, value) ==
    Resultado([self EXCEPT !.cache = dict_set(@, key, value),
                           !.access_order = Append(@, key),
                           !.accesos = acceder(@, key)],
              "None", "None")

\* ImageCache.put: popleft raises IndexError on an empty deque and del raises
\* KeyError for a key the dict does not hold, after the popleft
ImageCache_put(self, key, value) ==
    IF Cardinality(DOMAIN self.cache) >= self.maxsize
    THEN IF self.access_order = <<>>
         THEN Resultado(self, "None", "IndexError")
         ELSE LET oldest == Head(self.access_order)
                  quitada == [self EXCEPT !.access_order = Tail(@)]
              IN  IF oldest \notin DOMAIN self.cache
                  THEN Resultado(quitada, "None", "KeyError")
                  ELSE Resultado([quitada EXCEPT
                                      !.cache = dict_set(dict_del(@, oldest), key, value),
                                      !.access_order = Append(@, key),
                                      !.accesos = acceder(@, key)],
                                 "None", "None")
    ELSE Resultado([self EXCEPT !.cache = dict_set(@, key, value),
                                !.access_order = Append(@, key),
                                !.accesos = acceder(@, key)],
                   "None", "None")

\* ImageCache(maxsize)
CrearCache(maxsize) ==
    /\ objeto = None_nodo
    /\ llamada = Nombre("None", "") /\ args = NingunArgumento /\ pc[1] = "inactivo"
    /\ objeto' = ImageCache(maxsize)
    /\ llamada' = Nombre("__init__", "ImageCache")
    /\ UNCHANGED <<lanzada, args, retorno>>
    /\ UNCHANGED <<vars_gestor, procesador, disco>>

\* cache.get(key) by one of the threads
LlamarGet(key) ==
    /\ objeto.clase = "ImageCache"
    /\ LET r == ImageCache_get(objeto, key)
       IN  /\ objeto' = r.obj
           /\ retorno' = [valor |-> r.valor, error |-> r.error]
           /\ lanzada' = (r.error # "None")
    /\ llamada' = Nombre("get", "ImageCache")
    /\ args' = [key |-> key]
    /\ UNCHANGED <<vars_gestor, procesador, disco>>

\* cache.put(key, value) by one of the threads
LlamarPut(key, value) ==
    /\ objeto.clase = "ImageCache"
    /\ Len(objeto.access_order) < MaxOrden
    /\ LET r == ImageCache_put(objeto, key, value)
       IN  /\ objeto' = r.obj
           /\ retorno' = [valor |-> r.valor, error |-> r.error]
           /\ lanzada' = (r.error # "None")
    /\ llamada' = Nombre("put", "ImageCache")
    /\ args' = [key |-> key, value |-> value]
    /\ UNCHANGED <<vars_gestor, procesador, disco>>

\* the cache is dropped
DesecharCache ==
    /\ objeto.clase = "ImageCache"
    /\ objeto' = None_nodo
    /\ llamada' = Nombre("None", "")
    /\ args' = NingunArgumento
    /\ retorno' = NingunaSalida
    /\ lanzada' = FALSE
    /\ UNCHANGED <<vars_gestor, procesador, disco>>

\* server.process_images, first statement: processor.set_status("receiving")
Recibir(h) ==
    /\ pcp[h] = "inactivo"
    /\ status' = set_status(status, "receiving", "None", -1)
    /\ pcp' = [pcp EXCEPT ![h] = "recibiendo"]
    /\ UNCHANGED <<locales_proc, excepcion, vars_gestor, biblioteca, disco>>

\* server.process_images: the body cannot be parsed or holds no image; the
\* except branches set the status to error and the request is answered
RechazarSolicitud(h) ==
    /\ pcp[h] = "recibiendo"
    /\ status' = set_status(status, "error", "No se encontraron imagenes validas", -1)
    /\ pcp' = [pcp EXCEPT ![h] = "excepcion"]
    /\ excepcion' = [excepcion EXCEPT ![h] = "No se encontraron imagenes validas"]
    /\ UNCHANGED <<locales_proc, vars_gestor, biblioteca, disco>>

\* server.process_images: the parsed images are handed to process_images_batch,
\* which starts with set_status("processing", None, 0)
Entregar(h, imgs) ==
    /\ pcp[h] = "recibiendo"
    /\ imgs # <<>>
    /\ images' = [images EXCEPT ![h] = imgs]
    /\ status' = set_status(status, "processing", "None", 0)
    /\ pcp' = [pcp EXCEPT ![h] = "preparar"]
    /\ UNCHANGED <<results, chunk_size, desde, excepcion, vars_gestor, biblioteca, disco>>

(***************************************************************************)
(* xml_handler: the two parsers behind XMLHandler.parse_xml_optimized.  A  *)
(* document is its element tree: whether it is well-formed XML, whether it *)
(* is longer than 10 MB, and its image elements; an image has the text of  *)
(* its data element and its transformation elements; a transformation has  *)
(* its type attribute and one child element, angle.                        *)
(***************************************************************************)
\* the most image elements of a document and transformations of an image
MaxImagenesXml == 2
MaxTransXml == 1

\* the data element of an image: none, without text, blank, the base64 of an
\* image, not base64
DatosXml == {"ausente", "", " ", "b64_B", "basura"}

\* the type attribute: none, empty, an operation
TiposXml == {"None", "", "rotate"}

\* the child <angle>: none, without text, a number, a text int() rejects
ParametrosXml ==
    {[presente |-> FALSE, text |-> <<>>], [presente |-> TRUE, text |-> <<>>],
     [presente |-> TRUE, text |-> <<"1">>], [presente |-> TRUE, text |-> <<"1", "-", "2">>]}

TransformacionesXml == [type : TiposXml, angle : ParametrosXml]

ImagenesXml == [data : DatosXml, transformations : SeqsHasta(TransformacionesXml, MaxTransXml)]

DocumentosXml ==
    [bien_formado : {TRUE}, grande : BOOLEAN, images : SeqsHasta(ImagenesXml, MaxImagenesXml)]
        \cup [bien_formado : {FALSE}, grande : BOOLEAN, images : {<<>>}]

\* a key the dict does not have
SinClave == Valor("None", FALSE, 0, <<>>)

\* what a parser returns: the list of (bytes, trans_list), or lanza where it
\* raises ValueError
Analizado(images_) == [lanza |-> FALSE, images |-> images_]
AnalisisFallido == [lanza |-> TRUE, images |-> <<>>]

\* XMLHandler.parse_xml, the dict of a transformation element with a type:
\* a child is read when it has text
trans_dict(trans_node) ==
    [type |-> trans_node.type,
     angle |-> IF trans_node.angle.presente /\ trans_node.angle.text # <<>>
               THEN XMLHandler_parse_value(trans_node.angle.text)
               ELSE SinClave]

\* XMLHandler.parse_xml, the inner loop: elements without a type are skipped
RECURSIVE trans_list_de(_)
trans_list_de(nodos) ==
    IF nodos = <<>> THEN <<>>
    ELSE IF Head(nodos).type \in {"None", ""} THEN trans_list_de(Tail(nodos))
    ELSE <<trans_dict(Head(nodos))>> \o trans_list_de(Tail(nodos))

\* XMLHandler.parse_xml, the loop over root.findall('image')
RECURSIVE parse_xml_bucle(_, _)
parse_xml_bucle(img_nodes, images_) ==
    IF img_nodes = <<>> THEN Analizado(images_)
    ELSE LET img_node == Head(img_nodes)
             img_data == b64decode(strip(img_node.data))
             trans_list == trans_list_de(img_node.transformations)
         IN  IF img_node.data \in {"ausente", ""}
             THEN parse_xml_bucle(Tail(img_nodes), images_)
             ELSE IF ~img_data.ok
             THEN parse_xml_bucle(Tail(img_nodes), images_)
             ELSE IF \E k \in DOMAIN trans_list : trans_list[k].angle.lanza
             THEN AnalisisFallido
             ELSE IF trans_list # <<>>
             THEN parse_xml_bucle(Tail(img_nodes),
                                  Append(images_, [data |-> img_data.bytes,
                                                   transformations |-> trans_list]))
             ELSE parse_xml_bucle(Tail(img_nodes), images_)

\* XMLHandler.parse_xml on a whole document
parse_xml_documento(doc) ==
    IF ~doc.bien_formado THEN AnalisisFallido
    ELSE parse_xml_bucle(doc.images, <<>>)

\* StreamingXMLParser, startElement and endElement of a transformation and of
\* its child: every element gives a dict, and a child always sets its key
current_transformation(trans_node) ==
    [type |-> IF trans_node.type = "None" THEN "" ELSE trans_node.type,
     angle |-> IF trans_node.angle.presente
               THEN StreamingXMLParser_parse_value(trans_node.angle.text)
               ELSE SinClave]

\* StreamingXMLParser, the events of the image elements in document order:
\* endElement of data raises ValueError when base64 does, and endElement of
\* image keeps the image when data and the list are both truthy
RECURSIVE streaming_bucle(_, _)
streaming_bucle(img_nodes, images_) ==
    IF img_nodes = <<>> THEN Analizado(images_)
    ELSE LET img_node == Head(img_nodes)
             decodificada == b64decode(strip(img_node.data))
             current_transformations ==
                 [k \in DOMAIN img_node.transformations |->
                      current_transformation(img_node.transformations[k])]
         IN  IF img_node.data # "ausente" /\ ~decodificada.ok
             THEN AnalisisFallido
             ELSE IF \E k \in DOMAIN current_transformations :
                         current_transformations[k].angle.lanza
             THEN AnalisisFallido
             ELSE IF /\ img_node.data # "ausente"
                     /\ decodificada.bytes # ""
                     /\ current_transformations # <<>>
             THEN streaming_bucle(Tail(img_nodes),
                                  Append(images_,
                                         [data |-> decodificada.bytes,
                                          transformations |-> current_transformations]))
             ELSE streaming_bucle(Tail(img_nodes), images_)

\* XMLHandler._parse_xml_streaming: every exception becomes a ValueError
parse_xml_streaming(doc) ==
    IF ~doc.bien_formado THEN AnalisisFallido
    ELSE streaming_bucle(doc.images, <<>>)

\* XMLHandler.parse_xml_optimized: the streaming parser above 10 MB
parse_xml_optimized(doc) ==
    IF doc.grande THEN parse_xml_streaming(doc) ELSE parse_xml_documento(doc)

\* parse_xml_optimized is called on a document
LlamarParseXmlOptimized(doc) ==
    /\ llamada = Nombre("None", "")
    /\ objeto = None_nodo /\ args = NingunArgumento /\ pc[1] = "inactivo"
    /\ llamada' = Nombre("parse_xml_optimized", "XMLHandler")
    /\ args' = [documento |-> doc]
    /\ retorno' = parse_xml_optimized(doc)
    /\ lanzada' = parse_xml_optimized(doc).lanza
    /\ UNCHANGED objeto
    /\ UNCHANGED <<vars_gestor, procesador, disco>>

\* GestorNodos.__init__ and ImageProcessor.__init__, no call running
Init ==
    /\ imagenes_procesando = 0
    /\ estado = "disponible"
    /\ lock = 0
    /\ pc = [c \in Llamadas |-> "inactivo"]
    /\ tipo = [c \in Llamadas |-> "None"]
    /\ xml_content = [c \in Llamadas |-> NingunDocumento]
    /\ imagenes = [c \in Llamadas |-> <<>>]
    /\ futuros = [c \in Llamadas |-> <<>>]
    /\ resultados_por_indice = [c \in Llamadas |-> <<>>]
    /\ respuesta = [c \in Llamadas |-> NingunaRespuesta]
    /\ iter = [c \in Llamadas |-> 0]
    /\ nodos_procesados = [c \in Llamadas |-> <<>>]
    /\ root_respuesta = [c \in Llamadas |-> RaizVacia]
    /\ status = [state |-> "active", error |-> "None", processed |-> 0]
    /\ pcp = [h \in Hilos |-> "inactivo"]
    /\ images = [h \in Hilos |-> <<>>]
    /\ results = [h \in Hilos |-> <<>>]
    /\ chunk_size = [h \in Hilos |-> 0]
    /\ desde = [h \in Hilos |-> 0]
    /\ excepcion = [h \in Hilos |-> "None"]
    /\ xmls_temporales = [c \in Llamadas |-> <<>>]
    /\ archivos = {}
    /\ reloj = 0
    /\ objeto = None_nodo
    /\ llamada = Nombre("None", "")
    /\ lanzada = FALSE
    /\ args = NingunArgumento
    /\ retorno = NingunaSalida

Paso(c) ==
    \/ Adquirir(c)
    \/ Verificar(c)
    \/ Incrementar(c)
    \/ Despachar(c)
    \/ \E k \in DOMAIN futuros[c] : CompletarFuturo(c, k)
    \/ Agregar(c)
    \/ FalloInesperado(c)
    \/ Convertir(c)
    \/ Decrementar(c)
    \/ Retornar(c)

\* concurrent callers of one GestorNodos
Next ==
    \E c \in Llamadas :
        \/ /\ pc[c] = "inactivo"
           /\ \E doc \in DocumentosConc(MaxLote) : LlamarLote(c, doc)
        \/ /\ pc[c] = "inactivo"
           /\ \E doc \in DocumentosConc(2) : LlamarUnica(c, doc)
        \/ Paso(c)

Spec == Init /\ [][Next]_vars

\* one caller, batches of every kind of payload
NextLote ==
    \/ /\ pc[1] = "inactivo"
       /\ \E doc \in Documentos(ImagenesLote, MaxImagenes) : LlamarLote(1, doc)
    \/ /\ pc[1] = "inactivo"
       /\ \E doc \in Documentos(ImagenesLote, 2) : LlamarUnica(1, doc)
    \/ Paso(1)

SpecLote == Init /\ [][NextLote]_vars

\* one caller of the GestorNodos of nodo.py
NextNodo ==
    \/ /\ pc[1] = "inactivo"
       /\ \E doc \in Documentos(ImagenesNodo, MaxImagenes) : LlamarLoteNodo(1, doc)
    \/ Adquirir(1)
    \/ Verificar(1)
    \/ Incrementar(1)
    \/ \E escribe \in BOOLEAN : EscribirTemporal(1, escribe)
    \/ CargarNodo(1)
    \/ \E escribe \in BOOLEAN : GenerarXml(1, escribe)
    \/ LeerSalida(1)
    \/ TerminarLoteNodo(1)
    \/ Decrementar(1)
    \/ Retornar(1)
    \/ Tic

SpecNodo == Init /\ [][NextNodo]_vars

\* batches of one image each, of which the environment writes every file
DocumentosNodoConc ==
    {[bien_formado |-> TRUE, imagenes |-> <<img>>] : img \in {ImgA, ImgC}}

\* concurrent callers of the GestorNodos of nodo.py
NextNodoConc ==
    \/ \E c \in Llamadas :
           \/ /\ pc[c] = "inactivo"
              /\ \E doc \in DocumentosNodoConc : LlamarLoteNodo(c, doc)
           \/ Adquirir(c)
           \/ Verificar(c)
           \/ Incrementar(c)
           \/ EscribirTemporal(c, TRUE)
           \/ CargarNodo(c)
           \/ GenerarXml(c, TRUE)
           \/ LeerSalida(c)
           \/ TerminarLoteNodo(c)
           \/ Decrementar(c)
           \/ Retornar(c)
    \/ Tic

SpecNodoConc == Init /\ [][NextNodoConc]_vars

\* a step of obtener_estado
PasoEstado(c) ==
    \/ AdquirirEstado(c)
    \/ LeerEstado(c)
    \/ LeerCapacidad(c)

\* concurrent batches, single conversions and readers of the state on one
\* GestorNodos of nodo2.py
NextEstado ==
    \E c \in Llamadas :
        \/ /\ pc[c] = "inactivo"
           /\ \E doc \in DocumentosConc(MaxLote) : LlamarLote(c, doc)
        \/ /\ pc[c] = "inactivo"
           /\ \E doc \in DocumentosConc(2) : LlamarUnica(c, doc)
        \/ ObtenerEstado(c)
        \/ Paso(c)
        \/ PasoEstado(c)

SpecEstado == Init /\ [][NextEstado]_vars

\* a thread that can run does run, and a thread waiting for the lock gets it
\* when it is free again and again
Justicia ==
    \A c \in Llamadas :
        /\ WF_vars(\/ Verificar(c) \/ Incrementar(c) \/ Despachar(c)
                   \/ \E k \in DOMAIN futuros[c] : CompletarFuturo(c, k)
                   \/ FalloInesperado(c) \/ Agregar(c) \/ Convertir(c)
                   \/ Decrementar(c) \/ LeerEstado(c) \/ LeerCapacidad(c))
        /\ SF_vars(Adquirir(c) \/ AdquirirEstado(c))

\* largest batch of the fair specification
MaxLoteJusto == 2

\* documents of the fair specification: not well formed, and batches of valid
\* images of every size up to MaxLoteJusto
DocumentosJusto ==
    {[bien_formado |-> FALSE, imagenes |-> <<>>]}
        \cup {[bien_formado |-> TRUE, imagenes |-> [k \in 1..m |-> ImgA]] :
                  m \in 0..MaxLoteJusto}

NextJusto ==
    \E c \in Llamadas :
        \/ /\ pc[c] = "inactivo"
           /\ \E doc \in DocumentosJusto : LlamarLote(c, doc)
        \/ /\ pc[c] = "inactivo"
           /\ LlamarUnica(c, [bien_formado |-> TRUE, imagenes |-> <<ImgA>>])
        \/ ObtenerEstado(c)
        \/ Paso(c)
        \/ PasoEstado(c)

SpecJusto == Init /\ [][NextJusto]_vars /\ Justicia

\* tokens whose operation fails: a parameter int() cannot read, a size the
\* codec refuses, a call that raises TypeError; and two that succeed
TokensFallo ==
    {Nombre("rotar", "abc"), Nombre("redimensionar", "0x0"),
     Nombre("insertar_texto", "hola_pos_1_2"), Nombre("escala_grises", ""),
     Nombre("rotar", "90")}

\* batches of a valid image with a list of such tokens, alone or after a
\* valid image without transformations
DocumentosFallo ==
    {[bien_formado |-> TRUE,
      imagenes |-> antes \o << [ImgA EXCEPT !.transformaciones = trans] >>] :
        trans \in SeqsHasta(TokensFallo, MaxTokens), antes \in {<<>>, <<ImgB>>}}

\* nodo2 batches whose transformation lists hold failing operations
NextFallo ==
    \/ /\ pc[1] = "inactivo"
       /\ \E doc \in DocumentosFallo : LlamarLote(1, doc)
    \/ Adquirir(1)
    \/ Verificar(1)
    \/ Incrementar(1)
    \/ Despachar(1)
    \/ \E k \in DOMAIN futuros[1] : CompletarFuturo(1, k)
    \/ Agregar(1)
    \/ FalloInesperado(1)
    \/ Decrementar(1)
    \/ Retornar(1)

SpecFallo == Init /\ [][NextFallo]_vars

\* calls of _parse_value and of parse_xml on every parameter text
NextValores ==
    \/ /\ llamada = Nombre("None", "")
       /\ \E clase \in {"XMLHandler", "StreamingXMLParser"}, texto \in Valores :
              LlamarParseValue(clase, texto)
    \/ /\ llamada = Nombre("None", "")
       /\ \E texto \in Valores : LlamarParseXml(texto)
    \/ Volver

SpecValores == Init /\ [][NextValores]_vars

\* the boxes of the model, with coordinates from one before the image to one
\* after its largest side
Cajas ==
    {Caja(x1, y1, x2, y2) : x1 \in Coordenadas, y1 \in Coordenadas,
                            x2 \in Coordenadas, y2 \in Coordenadas}

\* the filters of the legacy tokens and the two crops, each called on its own
NextNumeros ==
    \/ /\ llamada = Nombre("None", "") /\ objeto = None_nodo
       /\ \E valor \in Niveles : LlamarDesenfocar(valor)
    \/ /\ llamada = Nombre("None", "") /\ objeto = None_nodo
       /\ \E brillo_val \in Niveles, contraste_val \in {0 - 1, 0, 50, 100, 101} :
              LlamarBrillo(brillo_val, contraste_val)
    \/ /\ llamada = Nombre("None", "") /\ objeto = None_nodo
       /\ \E width \in Lados, height \in Lados, trans \in Cajas, acepta \in BOOLEAN :
              LlamarCrop(width, height, trans, acepta)
    \/ /\ llamada = Nombre("None", "") /\ objeto = None_nodo
       /\ \E width \in Lados, height \in Lados, n \in 0..MAX_TRANSFORMACIONES_2 :
              ConstruirImagen(width, height, n)
    \/ /\ llamada = Nombre("None", "") /\ objeto # None_nodo
       /\ \E box \in Cajas : LlamarRecortar(box)
    \/ VolverNumeros

SpecNumeros == Init /\ [][NextNumeros]_vars

\* tokens a client sends: operations whose recorded name is the token itself,
\* and blur levels, which nodo2 turns into a radius before the call
TokensIda ==
    {Nombre("escala_grises", ""), Nombre("rotar", "90"), Nombre("reflejar", "vertical"),
     Nombre("desenfocar", "20"), Nombre("desenfocar", "50")}

DocumentosIda ==
    {[bien_formado |-> TRUE, reenviado |-> FALSE,
      imagenes |-> << [ImgA EXCEPT !.transformaciones = trans] >>] :
        trans \in SeqsHasta(TokensIda, MaxTokens)}

\* a nodo2 batch of one image, and the batch a client makes of its response
NextIda ==
    \/ /\ pc[1] = "inactivo"
       /\ \E doc \in DocumentosIda : LlamarLote(1, doc)
    \/ Adquirir(1)
    \/ Verificar(1)
    \/ Incrementar(1)
    \/ Despachar(1)
    \/ \E k \in DOMAIN futuros[1] : CompletarFuturo(1, k)
    \/ Agregar(1)
    \/ FalloInesperado(1)
    \/ Decrementar(1)
    \/ Reenviar(1)
    \/ Retornar(1)

SpecIda == Init /\ [][NextIda]_vars

\* calls of get and put on one ImageCache, in every order
NextCache ==
    \/ \E maxsize \in 1..MaxCache : CrearCache(maxsize)
    \/ \E key \in ClavesCache : LlamarGet(key)
    \/ \E key \in ClavesCache, value \in ValoresCache : LlamarPut(key, value)
    \/ DesecharCache

SpecCache == Init /\ [][NextCache]_vars

\* the longest list of a concurrent batch
MaxBatchConc == 2

\* threads that call process_images_batch on the one ImageProcessor, directly
\* or as the handler of a /process request
NextProcConc ==
    \E h \in Hilos :
        \/ /\ pcp[h] = "inactivo"
           /\ \E imgs \in SeqsHasta({"A", "basura"}, MaxBatchConc) :
                  ProcessImagesBatch(h, imgs)
        \/ Recibir(h)
        \/ RechazarSolicitud(h)
        \/ /\ pcp[h] = "recibiendo"
           /\ \E imgs \in SeqsHasta({"A", "basura"}, MaxBatchConc) : Entregar(h, imgs)
        \/ Preparar(h)
        \/ \E memoria \in BOOLEAN : ProcesarChunk(h, memoria)
        \/ TerminarBatch(h)
        \/ Reiniciar(h)

SpecProcConc == Init /\ [][NextProcConc]_vars

\* calls of parse_xml_optimized on every document, below and above 10 MB
NextXml ==
    \/ /\ llamada = Nombre("None", "")
       /\ \E doc \in DocumentosXml : LlamarParseXmlOptimized(doc)
    \/ Volver

SpecXml == Init /\ [][NextXml]_vars

\* one caller of ImageProcessor.process_images_batch
NextProc ==
    \/ /\ pcp[1] = "inactivo"
       /\ \E imgs \in SeqsHasta(BytesProc, MaxBatch) : ProcessImagesBatch(1, imgs)
    \/ Preparar(1)
    \/ \E memoria \in BOOLEAN : ProcesarChunk(1, memoria)
    \/ TerminarBatch(1)
    \/ Reiniciar(1)

SpecProc == Init /\ [][NextProc]_vars

\* the tokens of the transformaciones attribute: five recognised ones, of which
\* recortar_5_5_5_5 is an empty box, and one no branch recognises
TokensLegado ==
    {Nombre("escala_grises", ""), Nombre("rotar", "90"), Nombre("recortar", "5_5_5_5"),
     Nombre("desenfocar", "20"), Nombre("insertar_texto", "hola_pos_1_2"),
     Nombre("sepia", "")}

\* a batch of one valid image with a transformation list
DocumentosTrans ==
    {[bien_formado |-> TRUE,
      imagenes |-> << [ImgA EXCEPT !.transformaciones = trans] >>] :
        trans \in SeqsHasta(TokensLegado, MaxTokens)}

\* the two transformation pipelines: a nodo2 batch of one image with legacy
\* tokens, and process_single_image_optimized on one item
NextTrans ==
    \/ /\ pc[1] = "inactivo"
       /\ args = NingunArgumento
       /\ \E doc \in DocumentosTrans : LlamarLote(1, doc)
    \/ Adquirir(1)
    \/ Verificar(1)
    \/ Incrementar(1)
    \/ Despachar(1)
    \/ \E k \in DOMAIN futuros[1] : CompletarFuturo(1, k)
    \/ Agregar(1)
    \/ FalloInesperado(1)
    \/ Decrementar(1)
    \/ Retornar(1)
    \/ /\ pc[1] = "inactivo"
       /\ args = NingunArgumento
       /\ \E image_data \in BytesProc, use_numpy \in BOOLEAN :
              \E transformations \in SeqsHasta(Operaciones, MaxTokens) :
                  ProcesarUna(image_data, transformations, use_numpy)
    \/ Olvidar

SpecTrans == Init /\ [][NextTrans]_vars

\* direct method calls on one NodoOptimizado
NextObjeto ==
    \/ \E clase \in {"objects", "objects2"} : Construir(clase)
    \/ /\ objeto.clase = "objects"
       /\ \E m \in MetodosObjects : LlamarMetodo(m)
    \/ /\ objeto.clase = "objects2"
       /\ \E m \in MetodosObjects2 : LlamarMetodo(m)
    \/ Desechar

SpecObjeto == Init /\ [][NextObjeto]_vars

(***************************************************************************)
(* Properties.                                                             *)
(***************************************************************************)
\* the call has been admitted and has not given its capacity back
Admitida(c) ==
    pc[c] \in {"despachar", "esperando", "convertir", "bucle_imagenes", "cargar",
              "bucle_fusion", "leer",
              "liberar", "decrementar"}

\* the call has passed the admission test and has not given its capacity back
Retiene(c) == pc[c] = "incrementar" \/ Admitida(c)

ErrorCapacidad == crear_xml_error("Capacidad maxima excedida")

EsLote(r) == r.raiz = "imagenes_procesadas"

\* the index a child of the response carries
Indice(h) == IF h.indice_original # -1 THEN h.indice_original ELSE h.indice_procesado

\* C1: in every reachable state of GestorNodos, under every interleaving of
\* batch calls and single conversions (admitted, failing or rejected),
\* 0 <= imagenes_procesando <= capacidad_maxima.
C1_CapacidadRespetada ==
    /\ 0 <= imagenes_procesando
    /\ imagenes_procesando <= capacidad_maxima

\* two calls hold capacity at once and together fill it
C1_Testigo ==
    /\ imagenes_procesando = capacidad_maxima
    /\ \A c \in Llamadas : Admitida(c)
    /\ \E c \in Llamadas : tipo[c] = "lote" /\ ImgCorrupta \in Rango(imagenes[c])

\* C2: a batch of n images passes the test under the lock exactly when
\* imagenes_procesando + n <= capacidad_maxima, and is admitted whole; otherwise
\* the call returns the single capacity-exceeded error, no task of it was
\* submitted, imagenes_procesando and estado are as they were, and the rejected
\* call never decrements.
C2_AdmisionDeLote ==
    [][\A c \in Llamadas :
        /\ (pc[c] = "verificar" /\ tipo[c] = "lote" /\ pc'[c] # "verificar") =>
              IF imagenes_procesando + Len(imagenes[c]) <= capacidad_maxima
              THEN pc'[c] = "incrementar" /\ respuesta'[c] = NingunaRespuesta
              ELSE /\ pc'[c] = "fin"
                   /\ respuesta'[c] = ErrorCapacidad
                   /\ futuros'[c] = <<>> /\ resultados_por_indice'[c] = <<>>
                   /\ imagenes_procesando' = imagenes_procesando
                   /\ estado' = estado
        /\ (pc[c] = "incrementar" /\ tipo[c] = "lote" /\ pc'[c] # "incrementar") =>
              /\ imagenes_procesando + Len(imagenes[c]) <= capacidad_maxima
              /\ imagenes_procesando' = imagenes_procesando + Len(imagenes[c])
        /\ (pc[c] = "fin" /\ respuesta[c] = ErrorCapacidad /\ pc'[c] # "fin") =>
              /\ pc'[c] = "inactivo"
              /\ imagenes_procesando' = imagenes_procesando
              /\ estado' = estado
      ]_vars

\* a batch has been rejected while another call holds capacity
C2_Testigo ==
    \E c \in Llamadas :
        /\ pc[c] = "fin" /\ tipo[c] = "lote" /\ respuesta[c] = ErrorCapacidad
        /\ Len(imagenes[c]) <= capacidad_maxima
        /\ imagenes_procesando > 0
        /\ estado = "procesando"

CapacidadRetenida(c) == IF Admitida(c) THEN num_imagenes(c) ELSE 0

\* the capacity held by the calls of S together
RECURSIVE Suma(_)
Suma(S) ==
    IF S = {} THEN 0
    ELSE LET x == CHOOSE y \in S : TRUE IN CapacidadRetenida(x) + Suma(S \ {x})

\* C3: imagenes_procesando is at every moment the sum of the sizes of the calls
\* admitted and not yet released: each admitted call gives back exactly its n
\* images exactly once, on every exit path, so that imagenes_procesando is 0
\* whenever no admitted call is in progress.
C3_LiberacionExacta ==
    /\ imagenes_procesando = Suma(Llamadas)
    /\ (\A c \in Llamadas : ~Admitida(c)) => imagenes_procesando = 0

\* both exits have been taken: one batch ended in the general error, one with
\* a failed image, and the counter is back to 0
C3_Testigo ==
    /\ imagenes_procesando = 0
    /\ \E c, d \in Llamadas :
        /\ pc[c] = "fin" /\ respuesta[c] = crear_xml_error("Error general")
        /\ pc[d] = "fin" /\ EsLote(respuesta[d]) /\ respuesta[d].total_errores > 0
        /\ Len(imagenes[d]) > 1

\* C4: when a batch comes to the admission test while another batch that passed
\* it has not released, both within the capacity alone and beyond it together,
\* the batch is rejected with the capacity-exceeded error; when no other call
\* holds capacity, a batch within the capacity is admitted.
C4_DosLotes ==
    [][\A c \in Llamadas :
        (pc[c] = "verificar" /\ tipo[c] = "lote" /\ pc'[c] # "verificar") =>
            /\ \A d \in Llamadas \ {c} :
                  ( /\ tipo[d] = "lote" /\ Retiene(d)
                    /\ Len(imagenes[c]) <= capacidad_maxima
                    /\ Len(imagenes[d]) <= capacidad_maxima
                    /\ Len(imagenes[c]) + Len(imagenes[d]) > capacidad_maxima )
                  => (pc'[c] = "fin" /\ respuesta'[c] = ErrorCapacidad)
            /\ ( /\ \A d \in Llamadas \ {c} : ~Retiene(d)
                 /\ Len(imagenes[c]) <= capacidad_maxima )
               => pc'[c] = "incrementar"
      ]_vars

\* the second of two batches that each fit but do not fit together is rejected
\* while the first is still being processed
C4_Testigo ==
    \E c, d \in Llamadas :
        /\ c # d /\ tipo[c] = "lote" /\ tipo[d] = "lote"
        /\ pc[d] = "esperando"
        /\ pc[c] = "fin" /\ respuesta[c] = ErrorCapacidad
        /\ Len(imagenes[c]) < capacidad_maxima
        /\ Len(imagenes[d]) < capacidad_maxima
        /\ Len(imagenes[c]) = Len(imagenes[d])

\* the child h, carrying index i, is what image img at position i produces
Describe(h, img, i) ==
    LET t == procesar_imagen_individual_optimizado(img, i)
    IN  IF h.indice_original # -1
        THEN truthy(t.error) /\ h.error = t.error
        ELSE /\ ~truthy(t.error)
             /\ h.text.img = t.nodo.imagen_procesada
             /\ h.formato = t.formato
             /\ h.calidad = t.calidad

\* C5: whatever the order in which the futures complete, the children of a
\* batch response appear in increasing input index, and the index each child
\* carries is the input position of the image it describes.
C5_OrdenDeEntrada ==
    \A c \in Llamadas : EsLote(respuesta[c]) =>
        LET hs == respuesta[c].hijos
        IN  /\ \A j, k \in DOMAIN hs : j < k => Indice(hs[j]) < Indice(hs[k])
            /\ \A k \in DOMAIN hs :
                  /\ Indice(hs[k]) + 1 \in DOMAIN imagenes[c]
                  /\ Describe(hs[k], imagenes[c][Indice(hs[k]) + 1], Indice(hs[k]))

\* three different images whose futures completed in reverse order
C5_Testigo ==
    \E c \in Llamadas :
        /\ pc[c] = "fin" /\ EsLote(respuesta[c])
        /\ imagenes[c] = <<ImgA, ImgCorrupta, ImgB>>
        /\ claves_por_llegada(resultados_por_indice[c]) = <<2, 1, 0>>
        /\ Len(respuesta[c].hijos) = 3

\* C6 (as claimed): the list process_images_batch returns has the result of
\* the i-th input at position i, for the thread pool and for the process pool.
C6_OrdenDeResultados ==
    \A h \in Hilos : pcp[h] = "retornado" =>
        /\ Len(results[h]) = Len(images[h])
        /\ \A k \in DOMAIN images[h] :
              results[h][k] =
                  process_single_image_optimized(images[h][k], <<>>, FALSE).salida

\* C11 (as claimed): a failure while one image of the list is processed is
\* that image's own result and is not raised out of process_images_batch: the
\* call returns, with a result for every image of the list.
C11_FalloAislado ==
    \A h \in Hilos :
        ( /\ pcp[h] \in {"retornado", "excepcion"}
          /\ excepcion[h] \notin {"Insufficient memory for processing",
                                  "integer division or modulo by zero",
                                  "Batch size exceeds maximum"} )
        => /\ pcp[h] = "retornado"
           /\ Len(results[h]) = Len(images[h])

\* C7: every batch response of nodo2 has total_procesadas + total_errores equal
\* to the number of images of the batch, whichever images fail and however.
C7_ConservacionDeCuentas ==
    \A c \in Llamadas : EsLote(respuesta[c]) =>
        respuesta[c].total_procesadas + respuesta[c].total_errores = Len(imagenes[c])

\* a batch with an empty payload, a failure whose message is empty and an
\* encode failure has been answered
C7_Testigo ==
    \E c \in Llamadas :
        /\ pc[c] = "fin" /\ EsLote(respuesta[c])
        /\ {ImgVacia, ImgEnorme, ImgXYZ} \subseteq Rango(imagenes[c])

\* C8 (as claimed): every batch response of nodo.py has total_procesadas +
\* total_errores equal to the number of images of the batch.
C8_ConservacionDeCuentasNodo ==
    \A c \in Llamadas : (tipo[c] = "lote_nodo" /\ EsLote(respuesta[c])) =>
        respuesta[c].total_procesadas + respuesta[c].total_errores = Len(imagenes[c])

\* C12 (as claimed): in a batch response of nodo.py every image whose payload
\* cannot be decoded has an error element with indice_original equal to its
\* input index, is counted in total_errores, and has no success element.
C12_FalloDeDecodificacion ==
    \A c \in Llamadas : (tipo[c] = "lote_nodo" /\ EsLote(respuesta[c])) =>
        LET hs == respuesta[c].hijos
            malas == {k \in DOMAIN imagenes[c] : imagenes[c][k] = ImgCorrupta}
            exitos == {j \in DOMAIN hs : hs[j].indice_procesado # -1}
        IN  /\ \A k \in malas :
                  \E j \in DOMAIN hs : /\ truthy(hs[j].error)
                                       /\ hs[j].indice_original = k - 1
            /\ respuesta[c].total_errores >= Cardinality(malas)
            /\ Cardinality(exitos) <= Len(imagenes[c]) - Cardinality(malas)

\* C9 (as claimed): every input index 0..N-1 has exactly one child in the batch
\* response, a success element or an error element carrying that index.
C9_UnHijoPorIndice ==
    \A c \in Llamadas : EsLote(respuesta[c]) =>
        \A i \in 0..(Len(imagenes[c]) - 1) :
            Cardinality({k \in DOMAIN respuesta[c].hijos :
                            Indice(respuesta[c].hijos[k]) = i}) = 1

\* the images that decode and encode
ImagenesValidas == {ImgA, ImgB}

\* the child an image gets in a batch of its own, whatever its index
HijoSolo(img) ==
    respuesta_lote(<<[i |-> 0,
                      r |-> resultado_de(procesar_imagen_individual_optimizado(img, 0))]>>
                  ).hijos[1]

MismoResultado(h, g) ==
    /\ h.error = g.error /\ h.formato = g.formato
    /\ h.calidad = g.calidad /\ h.text = g.text

\* C10: a batch with one undecodable image at index k among K valid images is
\* answered with K success elements and one error element with
\* indice_original = k, and each of the K has the outcome it has in a batch
\* without the bad image.
C10_Aislamiento ==
    \A c \in Llamadas :
        ( /\ EsLote(respuesta[c])
          /\ Cardinality({j \in DOMAIN imagenes[c] : imagenes[c][j] = ImgCorrupta}) = 1
          /\ \A j \in DOMAIN imagenes[c] :
                imagenes[c][j] \in ImagenesValidas \cup {ImgCorrupta} )
        => LET hs == respuesta[c].hijos
               n == Len(imagenes[c])
           IN  /\ Len(hs) = n
               /\ respuesta[c].total_procesadas = n - 1
               /\ respuesta[c].total_errores = 1
               /\ \A j \in 1..n :
                     IF imagenes[c][j] = ImgCorrupta
                     THEN /\ truthy(hs[j].error)
                          /\ hs[j].indice_original = j - 1
                          /\ hs[j].indice_procesado = -1
                     ELSE /\ hs[j].indice_procesado = j - 1
                          /\ hs[j].indice_original = -1
                          /\ MismoResultado(hs[j], HijoSolo(imagenes[c][j]))

\* the bad image sits between two valid ones and its future finished first
C10_Testigo ==
    \E c \in Llamadas :
        /\ pc[c] = "fin" /\ EsLote(respuesta[c])
        /\ imagenes[c] = <<ImgA, ImgCorrupta, ImgB>>
        /\ resultados_por_indice[c][1].i = 1

LoteDeUna ==
    /\ pc[1] = "fin" /\ EsLote(respuesta[1])
    /\ Len(imagenes[1]) = 1

\* the keywords the if/elif chain of _aplicar_transformaciones_optimizado tests
ClavesLegado ==
    {"escala_grises", "rotar", "redimensionar", "recortar", "reflejar", "desenfocar",
     "perfilar", "ajustar_brillo", "ajustar_nitidez", "ajustar_saturacion",
     "insertar_texto"}

\* the keywords of a list of names
Claves(lista) == [k \in 1..Len(lista) |-> lista[k].clave]

\* a can be obtained from b by deleting elements
RECURSIVE EsSubsecuencia(_, _)
EsSubsecuencia(a, b) ==
    IF a = <<>> THEN TRUE
    ELSE IF b = <<>> THEN FALSE
    ELSE IF Head(a) = Head(b) THEN EsSubsecuencia(Tail(a), Tail(b))
    ELSE EsSubsecuencia(a, Tail(b))

\* C14: in a nodo2 batch, an image whose list holds more recognised operations
\* than the cap of its NodoOptimizado comes back as a success with exactly cap
\* entries in transformaciones and total_transformaciones = cap.
C14_TopeExacto ==
    ( /\ LoteDeUna
      /\ Len(imagenes[1][1].transformaciones) > MAX_TRANSFORMACIONES_2
      /\ \A k \in DOMAIN imagenes[1][1].transformaciones :
             imagenes[1][1].transformaciones[k].clave \in ClavesLegado )
    => /\ Len(respuesta[1].hijos) = 1
       /\ respuesta[1].hijos[1].error = "None"
       /\ Len(respuesta[1].hijos[1].transformaciones) = MAX_TRANSFORMACIONES_2
       /\ respuesta[1].hijos[1].total_transformaciones = MAX_TRANSFORMACIONES_2

\* C15: process_single_image_optimized applies at most cap operations of a
\* list, on the PIL path and on the NumPy path.
C15_TopeEnProcesador ==
    (args # NingunArgumento /\ retorno.ok)
        => Len(retorno.salida.operaciones) <= MAX_TRANSFORMACIONES_2

\* C16: in a nodo2 batch, transformaciones lists the applied operations in the
\* order of the client's list.
C16_OrdenDelCliente ==
    (LoteDeUna /\ Len(respuesta[1].hijos) = 1)
        => EsSubsecuencia(Claves(respuesta[1].hijos[1].transformaciones),
                          Claves(imagenes[1][1].transformaciones))

\* the operations of a list whose type apply_single_transformation_optimized
\* has a branch for
Conocidas(transformations) ==
    SelectSeq(transformations, LAMBDA t : t.type \in TiposConocidos)

\* the tokens of a list whose keyword is one the chain tests
Reconocidos(trans_list) == SelectSeq(trans_list, LAMBDA t : t.clave \in ClavesLegado)

\* C17: an operation of an unknown kind changes nothing and raises nothing.
\* process_single_image_optimized on a valid image succeeds and has applied the
\* operations of known type, in order, and no other; a nodo2 image with
\* unrecognised tokens is a success whose transformaciones is that of the list
\* without them.
C17_TipoDesconocido ==
    /\ (args # NingunArgumento /\ Image_open(args.image_data).ok)
           => /\ retorno.ok
              /\ Claves(retorno.salida.operaciones)
                     = [k \in 1..Len(Conocidas(args.transformations)) |->
                            Conocidas(args.transformations)[k].type]
    /\ LoteDeUna
           => /\ Len(respuesta[1].hijos) = 1
              /\ respuesta[1].hijos[1].error = "None"
              /\ respuesta[1].total_errores = 0
              /\ respuesta[1].hijos[1].transformaciones =
                     aplicar_transformaciones_optimizado(
                         NodoOptimizado("A"),
                         Reconocidos(imagenes[1][1].transformaciones)
                     ).transformaciones_aplicadas

\* both pipelines have met an operation of an unknown kind between two known
\* ones (the structured one in another run than the legacy one)
C17_Testigo ==
    \/ /\ args.transformations = <<Op("grayscale", "None"), Op("sepia", "None"),
                                   Op("rotate", "None")>>
       /\ args.image_data = "A"
       /\ retorno.ok
    \/ /\ LoteDeUna
       /\ imagenes[1][1].transformaciones =
              <<Nombre("sepia", ""), Nombre("rotar", "90")>>
       /\ Len(respuesta[1].hijos[1].transformaciones) = 1

\* the format of the last convert operation of a list, or the default
RECURSIVE UltimoConvert(_, _)
UltimoConvert(transformations, default) ==
    IF transformations = <<>> THEN default
    ELSE LET t == transformations[Len(transformations)]
         IN  IF t.type = "convert"
             THEN (IF t.format = "jpg" THEN "JPEG" ELSE upper(t.format))
             ELSE UltimoConvert(SubSeq(transformations, 1, Len(transformations) - 1),
                                default)

\* C18: process_single_image_optimized encodes in the native format of the
\* input when the list has no convert operation and in the format of the last
\* convert operation when it has one, whether or not the NumPy path is taken.
C18_FormatoFinal ==
    (args # NingunArgumento /\ retorno.ok)
        => retorno.salida.formato =
               UltimoConvert(args.transformations,
                             IF args.image_data = "B" THEN "PNG" ELSE "JPEG")

\* a document that is not well-formed XML or holds no imagen element
Rechazable(doc) == ~doc.bien_formado \/ doc.imagenes = <<>>

\* C19: procesar_xml_imagenes called with a document that is not well formed or
\* has no imagen element returns an error document at once: the call takes no
\* lock, leaves imagenes_procesando and estado as they were, submits no image
\* and never reaches the admission test.
C19_RechazoSinAdmision ==
    [][ \A c \in Llamadas :
            ( /\ pc'[c] # "inactivo"
              /\ tipo'[c] \in {"lote", "lote_nodo"}
              /\ Rechazable(xml_content'[c]) )
            => /\ pc'[c] = "fin"
               /\ respuesta'[c] \in {crear_xml_error("XML malformado"),
                                     crear_xml_error("No se encontraron imagenes en el XML")}
               /\ futuros'[c] = <<>> /\ resultados_por_indice'[c] = <<>>
               /\ pc[c] = "inactivo"
                      => /\ imagenes_procesando' = imagenes_procesando
                         /\ estado' = estado
                         /\ lock' = lock ]_vars

\* a batch without imagen elements was rejected while another call held capacity
C19_Testigo ==
    \E c, d \in Llamadas :
        /\ pc[c] = "fin" /\ tipo[c] = "lote"
        /\ xml_content[c] = [bien_formado |-> TRUE, imagenes |-> <<>>]
        /\ respuesta[c] = crear_xml_error("No se encontraron imagenes en el XML")
        /\ Retiene(d) /\ imagenes_procesando > 0

\* C20: every success element of a nodo.py batch holds the image of that
\* batch's own payload at that index, and every image of the batch has its
\* element, whatever the other batches running at the same time do.
C20_LotesIndependientes ==
    \A c \in Llamadas :
        ( /\ tipo[c] = "lote_nodo" /\ pc[c] = "fin" /\ EsLote(respuesta[c])
          /\ \A k \in DOMAIN imagenes[c] : truthy(imagenes[c][k].texto) )
        => /\ Len(respuesta[c].hijos) = Len(imagenes[c])
           /\ \A j \in DOMAIN respuesta[c].hijos :
                  LET h == respuesta[c].hijos[j]
                  IN  h.indice_procesado # -1 =>
                          h.text.img =
                              cargar_desde_xml(imagenes[c][h.indice_procesado + 1].texto
                                              ).imagen_procesada

\* C21: in a nodo2 batch response, the formato and calidad of every success
\* element are those of its own input element (formato upper-cased, JPEG when
\* absent; calidad 85 when absent), whatever the other images of the batch ask.
C21_FormatoPorImagen ==
    \A c \in Llamadas : (tipo[c] = "lote" /\ EsLote(respuesta[c])) =>
        \A j \in DOMAIN respuesta[c].hijos :
            LET h == respuesta[c].hijos[j]
                elem == imagenes[c][h.indice_procesado + 1]
            IN  h.indice_procesado # -1 =>
                    /\ h.formato = upper(get(elem.formato, "JPEG"))
                    /\ h.calidad = int(get(elem.calidad, "85")).v
                    /\ h.text.formato = h.formato

\* a batch of a JPEG image at the defaults, a PNG image at quality 90 and
\* another JPEG image came back with three success elements
C21_Testigo ==
    /\ pc[1] = "fin" /\ EsLote(respuesta[1])
    /\ imagenes[1] = <<ImgA, ImgB, ImgA>>
    /\ Len(respuesta[1].hijos) = 3
    /\ respuesta[1].hijos[2].formato = "PNG" /\ respuesta[1].hijos[2].calidad = 90
    /\ respuesta[1].hijos[3].formato = "JPEG" /\ respuesta[1].hijos[3].calidad = 85

\* C22 (as claimed): in a batch response of nodo.py the indice_procesado of a
\* success element is the position in the input batch of the image it holds,
\* also when an earlier image had no data or failed, and the success elements
\* are in input order.
C22_IndiceDeEntrada ==
    (tipo[1] = "lote_nodo" /\ pc[1] = "fin" /\ EsLote(respuesta[1])) =>
        LET hs == respuesta[1].hijos
        IN  \A j \in DOMAIN hs :
                hs[j].indice_procesado # -1 =>
                    LET elem == imagenes[1][hs[j].indice_procesado + 1]
                    IN  /\ truthy(elem.texto)
                        /\ hs[j].text.img = cargar_desde_xml(elem.texto).imagen_procesada
                        /\ \A k \in 1..(j - 1) :
                               hs[k].indice_procesado < hs[j].indice_procesado

SeccionCritica == {"verificar", "incrementar", "decrementar", "leer_estado", "leer_capacidad"}

\* C25: the lock of the GestorNodos of nodo2.py is held only inside the
\* admission test and increment, the decrement of the finally block and the
\* read of obtener_estado, never by a call that is decoding, transforming or
\* encoding; and every dict obtener_estado returns, also while batches are
\* being processed, is the state of one moment: capacidad_disponible =
\* capacidad_maxima - imagenes_procesando and disponible = (imagenes_procesando
\* < capacidad_maxima).
C25_LockSoloEnSeccionCritica ==
    \A c \in Llamadas :
        /\ lock = c => pc[c] \in SeccionCritica
        /\ pc[c] \in {"despachar", "esperando", "convertir", "liberar"} => lock # c
        /\ pc[c] = "leer_capacidad" =>
               /\ respuesta[c].imagenes_procesando = imagenes_procesando
               /\ respuesta[c].estado = estado
        /\ (tipo[c] = "estado" /\ pc[c] = "fin") =>
               LET d == respuesta[c]
               IN  /\ d.imagenes_procesando \in 0..capacidad_maxima
                   /\ d.capacidad_maxima = capacidad_maxima
                   /\ d.capacidad_disponible = d.capacidad_maxima - d.imagenes_procesando
                   /\ d.disponible = (d.imagenes_procesando < d.capacidad_maxima)
                   /\ d.estado = IF d.imagenes_procesando = 0 THEN "disponible"
                                 ELSE "procesando"

\* obtener_estado has returned a dict that counts the two images of a batch
\* whose futures are still pending
C25_Testigo ==
    /\ tipo[1] = "estado" /\ pc[1] = "fin"
    /\ respuesta[1].imagenes_procesando = 2 /\ respuesta[1].capacidad_disponible = 1
    /\ tipo[2] = "lote" /\ pc[2] = "esperando"
    /\ \A k \in DOMAIN futuros[2] : futuros[2][k] = "pendiente"

\* the log entry a token leaves when its operation is reached below the cap:
\* its own name, the name of the default call where the parameter is
\* unreadable or the codec refuses it, nothing where the call raises
entrada_de(trans) ==
    CASE trans = Nombre("rotar", "abc") -> <<Nombre("rotar", "45")>>
      [] trans = Nombre("redimensionar", "0x0") -> <<Nombre("redimensionar", "200x200")>>
      [] trans.clave = "insertar_texto" -> <<>>
      [] OTHER -> <<trans>>

RECURSIVE entradas_de(_)
entradas_de(lista) ==
    IF lista = <<>> THEN <<>> ELSE entrada_de(Head(lista)) \o entradas_de(Tail(lista))

\* C24: in a nodo2 batch, an operation that fails (unreadable parameters, or an
\* exception while it is applied) never aborts its image: the image is a
\* success element, the failing operation is skipped or has run with its
\* defaults, and the operations after it were attempted, so that the log holds
\* the entries of all the operations of the list up to the cap.
C24_FalloDeOperacionNoAborta ==
    ( /\ pc[1] = "fin" /\ tipo[1] = "lote" /\ EsLote(respuesta[1])
      /\ \A k \in DOMAIN imagenes[1] :
             Rango(imagenes[1][k].transformaciones) \subseteq TokensFallo )
    => LET hs == respuesta[1].hijos
       IN  /\ Len(hs) = Len(imagenes[1])
           /\ respuesta[1].total_procesadas = Len(imagenes[1])
           /\ respuesta[1].total_errores = 0
           /\ \A k \in DOMAIN hs :
                  LET todas == entradas_de(orden_de_aplicacion(
                                               imagenes[1][k].transformaciones))
                  IN  /\ hs[k].error = "None"
                      /\ hs[k].indice_procesado = k - 1
                      /\ hs[k].transformaciones =
                             SubSeq(todas, 1, Min(Len(todas), MAX_TRANSFORMACIONES_2))

\* the second image of a batch had a call that raises, then an unreadable
\* angle, then a valid operation: it came back with rotar_45 after escala_grises
C24_Testigo ==
    /\ pc[1] = "fin" /\ EsLote(respuesta[1])
    /\ Len(imagenes[1]) = 2
    /\ imagenes[1][2].transformaciones =
           <<Nombre("insertar_texto", "hola_pos_1_2"), Nombre("rotar", "abc"),
             Nombre("escala_grises", "")>>
    /\ Len(respuesta[1].hijos) = 2
    /\ respuesta[1].hijos[2].transformaciones =
           <<Nombre("escala_grises", ""), Nombre("rotar", "45")>>

\* a text that looks like a number: digits once its '-' and '.' are removed
PareceNumero(value) == str_isdigit(str_replace(str_replace(value, "-"), "."))

\* C26 (as claimed): _parse_value of both classes never raises and returns a
\* bool for the literals true/false, a float for a text that looks like a
\* number and has a '.', an int for one that has none, and the text otherwise;
\* and parse_xml never fails because of a parameter value.
C26_ParseValueTotal ==
    llamada.clave \in {"_parse_value", "parse_xml"} =>
        LET value == str_strip(args.texto)
        IN  /\ ~lanzada
            /\ (llamada.clave = "parse_xml" /\ args.texto = <<>>) \/
                   retorno.clase =
                       IF str_lower(value) \in {Palabra_true, Palabra_false} THEN "bool"
                       ELSE IF PareceNumero(value) /\ "." \in Rango(value) THEN "float"
                       ELSE IF PareceNumero(value) THEN "int"
                       ELSE "str"

\* C27 (as claimed): for the token ajustar_brillo_B_contraste_C the multipliers
\* handed to the enhancers are clamp(B,0,100)/50 and clamp(C,0,100)/50 limited
\* to 0.1..2.0, so that level 50 gives 1.0.
C27_FactoresDeBrillo ==
    llamada = Nombre("ajustar_brillo", "nodo2") =>
        /\ retorno.a = Max(Unidad \div 10,
                           Min(2 * Unidad, (Max(0, Min(100, args.a)) * Unidad) \div 50))
        /\ retorno.b = Max(Unidad \div 10,
                           Min(2 * Unidad, (Max(0, Min(100, args.b)) * Unidad) \div 50))
        /\ args.a = 50 => retorno.a = Unidad

\* C28 (as claimed): for the token desenfocar_L the radius handed to
\* GaussianBlur is clamp(L,0,100)/10, so that level 100 gives 10.0.
C28_RadioDeDesenfoque ==
    llamada = Nombre("desenfocar", "nodo2") =>
        retorno.a = (Max(0, Min(100, args.a)) * Unidad) \div 10

\* C29 (as claimed): the box a crop operation of
\* apply_single_transformation_optimized hands to the codec on a W x H image
\* has 0 <= left <= right <= W and 0 <= top <= bottom <= H, and the operation
\* does not raise.
C29_CajaDentroDeLaImagen ==
    llamada = Nombre("crop", "image_processor") =>
        LET box == retorno.box
        IN  /\ 0 <= box.x1 /\ box.x1 <= box.x2 /\ box.x2 <= args.img.width
            /\ 0 <= box.y1 /\ box.y1 <= box.y2 /\ box.y2 <= args.img.height
            /\ ~lanzada

\* C30: recortar(box) of objects2 on a W x H image, for every integer box,
\* never raises and does one of two things: the image becomes the region of
\* the box clamped to [0,W] x [0,H] and recortar_x1_y1_x2_y2 with the clamped
\* coordinates is appended to the log, which happens exactly when the clamped
\* box is not empty and the log is below the cap; or the image and the log
\* stay as they were.
C30_RecortarAcotado ==
    [][ (llamada = Nombre("None", "") /\ llamada' = Nombre("recortar", "objects2")) =>
            LET img == objeto.imagen_procesada
                box == args'.trans
                x1 == Max(0, Min(box.x1, img.width))
                y1 == Max(0, Min(box.y1, img.height))
                x2 == Max(0, Min(box.x2, img.width))
                y2 == Max(0, Min(box.y2, img.height))
                registro == objeto.transformaciones_aplicadas
            IN  /\ ~lanzada'
                /\ Len(objeto'.transformaciones_aplicadas) <= MAX_TRANSFORMACIONES_2
                /\ IF x2 > x1 /\ y2 > y1 /\ Len(registro) < MAX_TRANSFORMACIONES_2
                   THEN /\ objeto'.imagen_procesada =
                               Imagen(img.x + x1, img.y + y1, x2 - x1, y2 - y1)
                        /\ 0 < objeto'.imagen_procesada.width
                        /\ objeto'.imagen_procesada.width <= img.width
                        /\ 0 < objeto'.imagen_procesada.height
                        /\ objeto'.imagen_procesada.height <= img.height
                        /\ Len(objeto'.transformaciones_aplicadas) = Len(registro) + 1
                        /\ SubSeq(objeto'.transformaciones_aplicadas, 1, Len(registro))
                               = registro
                        /\ objeto'.transformaciones_aplicadas[Len(registro) + 1]
                               = [clave |-> "recortar", x1 |-> x1, y1 |-> y1,
                                  x2 |-> x2, y2 |-> y2]
                   ELSE objeto' = objeto ]_vars

\* a box that reaches outside a 2 x 2 image on three sides was clamped to the
\* upper half of the image, after one earlier operation
C30_Testigo ==
    /\ llamada = Nombre("recortar", "objects2")
    /\ args.img = Imagen(0, 0, 2, 2)
    /\ args.trans = Caja(0 - 1, 0 - 1, 3, 1)
    /\ objeto.imagen_procesada = Imagen(0, 0, 2, 1)
    /\ Len(objeto.transformaciones_aplicadas) = 2
    /\ objeto.transformaciones_aplicadas[2] = NombreCaja(Caja(0, 0, 2, 1))

\* C31 (as claimed): the names objects2 records round-trip through the
\* transformaciones attribute: when the list a response carries is sent again
\* as the attribute of the same image, every token is decoded into the
\* operation that recorded it, so the second response carries the same list
C31_NombresIdaYVuelta ==
    ( /\ pc[1] = "fin" /\ tipo[1] = "lote" /\ EsLote(respuesta[1])
      /\ xml_content[1].reenviado )
    => /\ Len(respuesta[1].hijos) = Len(imagenes[1])
       /\ \A k \in DOMAIN respuesta[1].hijos :
              respuesta[1].hijos[k].transformaciones =
                  imagenes[1][k].transformaciones

\* the bytes a client encoded into a payload of the model: base64(gzip(A)),
\* base64(B)
BytesOriginales(texto) ==
    CASE texto = "b64gzip_A" -> "A"
      [] texto = "b64_B" -> "B"
      [] OTHER -> "None"

\* C32: in the batch entry point and in the single conversion of nodo2 a
\* payload is decoded to its original bytes whether it is base64(gzip(bytes))
\* or plain base64(bytes): an answered batch mixing both kinds has no error
\* and every image of the response is the image of its input's original bytes.
C32_DecodificacionConRespaldo ==
    \A c \in Llamadas :
        ( /\ pc[c] = "fin" /\ imagenes[c] # <<>>
          /\ tipo[c] = "lote" => EsLote(respuesta[c])
          /\ \A k \in DOMAIN imagenes[c] :
                 /\ imagenes[c][k].texto \in {"b64gzip_A", "b64_B"}
                 /\ imagenes[c][k].formato \in {"None", "png"}
                 /\ imagenes[c][k].calidad \in {"None", "90"} )
        => LET hs == respuesta[c].hijos
           IN  /\ respuesta[c].raiz = IF tipo[c] = "lote" THEN "imagenes_procesadas"
                                      ELSE "imagen_convertida"
               /\ tipo[c] = "lote" => respuesta[c].total_errores = 0
               /\ Len(hs) = Len(imagenes[c])
               /\ \A k \in DOMAIN hs :
                      /\ hs[k].error = "None"
                      /\ hs[k].text.img = BytesOriginales(imagenes[c][k].texto)

\* a batch of a gzip payload and a plain payload has been answered with both images
C32_Testigo ==
    /\ pc[1] = "fin" /\ tipo[1] = "lote"
    /\ imagenes[1] = <<ImgA, ImgB>>
    /\ Len(respuesta[1].hijos) = 2
    /\ respuesta[1].hijos[1].text.img = "A"
    /\ respuesta[1].hijos[2].text.img = "B"

\* C37: in GestorNodos of nodo2, in every state a thread can see while it
\* holds the lock or while the lock is free, estado is 'procesando' exactly
\* when imagenes_procesando > 0 and 'disponible' exactly when it is 0, under
\* every interleaving of admitted, rejected and completed batches and single
\* conversions.
C37_EstadoSegunContador ==
    /\ estado \in {"disponible", "procesando"}
    /\ estado = "procesando" <=> imagenes_procesando > 0
    /\ estado = "disponible" <=> imagenes_procesando = 0

\* one call has completed and released while another, admitted, is still
\* being processed
C37_Testigo ==
    \E c, d \in Llamadas :
        /\ c # d
        /\ pc[c] = "fin" /\ respuesta[c].raiz \in {"imagenes_procesadas", "imagen_convertida"}
        /\ Admitida(d) /\ pc[d] \in {"esperando", "convertir"}
        /\ imagenes_procesando > 0
        /\ estado = "procesando"

\* the cached key whose most recent access is the oldest
MenosReciente(obj) ==
    Head(SelectSeq(obj.accesos, LAMBDA k : k \in DOMAIN obj.cache))

\* C33 (as claimed): ImageCache evicts the least recently used entry: a put of
\* a new key into a cache holding maxsize entries removes exactly the entry
\* whose most recent put or successful get is the oldest, and a successful
\* get(k) returns the value last put for k and makes k the most recently used.
C33_DesalojoLRU ==
    [][ (objeto.clase = "ImageCache" /\ objeto'.clase = "ImageCache") =>
          /\ ( /\ llamada' = Nombre("put", "ImageCache")
               /\ Cardinality(DOMAIN objeto.cache) = objeto.maxsize
               /\ args'.key \notin DOMAIN objeto.cache )
             => /\ ~lanzada'
                /\ DOMAIN objeto.cache \ DOMAIN objeto'.cache = {MenosReciente(objeto)}
                /\ objeto'.cache[args'.key] = args'.value
          /\ ( /\ llamada' = Nombre("get", "ImageCache")
               /\ args'.key \in DOMAIN objeto.cache )
             => /\ retorno'.valor = objeto.cache[args'.key]
                /\ objeto'.cache = objeto.cache
                /\ objeto'.access_order # <<>>
                /\ objeto'.access_order[Len(objeto'.access_order)] = args'.key
      ]_vars

\* C34: for every maxsize >= 1 and every sequence of get and put, repeated
\* puts of a cached key included, the cache never holds more than maxsize
\* entries.
C34_CacheAcotada ==
    objeto.clase = "ImageCache" =>
        Cardinality(DOMAIN objeto.cache) <= objeto.maxsize

\* a put into a full cache after a repeated put of a cached key
C34_Testigo ==
    /\ objeto.clase = "ImageCache"
    /\ llamada = Nombre("put", "ImageCache") /\ ~lanzada
    /\ Cardinality(DOMAIN objeto.cache) = objeto.maxsize
    /\ objeto.maxsize = MaxCache
    /\ Len(objeto.access_order) > objeto.maxsize
    /\ Head(objeto.accesos) \notin DOMAIN objeto.cache

\* C35 (as claimed): after every sequence of get and put, access_order holds
\* exactly the keys of cache, each once, and no put has raised (no KeyError
\* at the eviction, no IndexError on an empty deque).
C35_OrdenCoherente ==
    objeto.clase = "ImageCache" =>
        /\ Rango(objeto.access_order) = DOMAIN objeto.cache
        /\ Len(objeto.access_order) = Cardinality(DOMAIN objeto.cache)
        /\ ~lanzada

\* process_images_batch of thread h has been entered and has neither returned
\* nor raised
EnProgreso(h) == pcp[h] \in {"preparar", "chunks"}

\* C36 (as claimed): while at least one call of process_images_batch is in
\* progress the status reads 'processing' and its processed count is that of a
\* batch in progress; with two concurrent batches and concurrent /process
\* requests, one batch ending or failing never makes the status 'active' or
\* 'error' while the other is still being processed.
C36_EstadoMientrasProcesa ==
    (\E h \in Hilos : EnProgreso(h)) =>
        /\ status.state = "processing"
        /\ \E h \in Hilos : EnProgreso(h) /\ status.processed = Len(results[h])

\* C39 (as claimed): get_optimal_chunk_size returns an integer in
\* 1..CHUNK_SIZE and raises nothing for every batch of at least one image and
\* every average size from 0 on, so that the chunk loop of
\* process_images_batch advances and a returned list covers every index once.
C39_ChunkSizeValido ==
    \A h \in Hilos :
        (Len(images[h]) >= 1 /\ pcp[h] \in {"chunks", "retornado", "excepcion"}) =>
            /\ excepcion[h] # "integer division or modulo by zero"
            /\ pcp[h] \in {"chunks", "retornado"} =>
                  /\ chunk_size[h] \in 1..CHUNK_SIZE
                  /\ desde[h] % chunk_size[h] = 0
                  /\ Len(results[h]) = Min(desde[h], Len(images[h]))
            /\ pcp[h] = "retornado" => Len(results[h]) = Len(images[h])

\* C38 (as claimed): the two parsers behind parse_xml_optimized are
\* equivalent: on every document, whatever its length, what the parser chosen
\* returned is what the other parser returns: either both raise, or both
\* return the same list of (bytes, operations) in the same order.
C38_AnalizadoresEquivalentes ==
    llamada = Nombre("parse_xml_optimized", "XMLHandler") =>
        LET otro_ == IF args.documento.grande
                     THEN parse_xml_documento(args.documento)
                     ELSE parse_xml_streaming(args.documento)
        IN  /\ lanzada = otro_.lanza
            /\ ~lanzada => retorno.images = otro_.images

====
